---- MODULE Spec2Model ----
(***************************************************************************)
(* Hybrid authentication of the URL shortener: a short-lived JWT access    *)
(* token, a long-lived JWT refresh token and a revocable row of the        *)
(* sessions table.  The model follows the request pipeline of the Express  *)
(* application: the verifyAuthentication middleware runs first, then the   *)
(* route handler (getMe, postLogin, logoutUser).  A request is a process   *)
(* whose steps are separated by the database operations it awaits.         *)
(***************************************************************************)
EXTENDS Integers, Sequences, FiniteSets, Bags, TLC

(* ------------------------------------------------------------------ *)
(* config/constants.js                                                  *)
(* ------------------------------------------------------------------ *)
MILLISECONDS_PER_SECOND == 1000
SECONDS_PER_MINUTE == 60
MINUTES_PER_HOUR == 60
HOURS_PER_DAY == 24
DAYS_PER_WEEK == 7

ACCESS_TOKEN_EXPIRY == 15 * SECONDS_PER_MINUTE * MILLISECONDS_PER_SECOND

REFRESH_TOKEN_EXPIRY ==
    DAYS_PER_WEEK * HOURS_PER_DAY * MINUTES_PER_HOUR * SECONDS_PER_MINUTE
        * MILLISECONDS_PER_SECOND

(* ------------------------------------------------------------------ *)
(* Bounds of the model                                                  *)
(* ------------------------------------------------------------------ *)
\* number of times the clock is moved forward
MaxAdvances == 2
\* number of requests the server receives
MaxRequests == 3
\* number of requests the server receives while its storage may fail
MaxFaultRequests == 2
\* number of requests the server receives while it serves two at a time
MaxConcurrentRequests == 3
\* number of requests the server receives while users register
MaxRegisterRequests == 3
\* requests received in the runs about the email verification
MaxVerifyRequests == 3
\* requests received while two clients ask for verification links
MaxResendRequests == 2
\* requests received in the runs about the Google login
MaxOauthRequests == 2
\* requests received in the runs about the short links
MaxLinkRequests == 2

\* the requests the server processes concurrently
Slots == {"r1"}

\* two requests processed at a time
Clients == {"r1", "r2"}

\* the amounts by which the clock moves: one access-token lifetime or
\* one refresh-token lifetime, in seconds (the unit of the JWT exp claim)
ClockSteps ==
    { ACCESS_TOKEN_EXPIRY \div MILLISECONDS_PER_SECOND,
      REFRESH_TOKEN_EXPIRY \div MILLISECONDS_PER_SECOND }

(* ------------------------------------------------------------------ *)
(* Values                                                               *)
(* ------------------------------------------------------------------ *)
\* a JavaScript undefined in a numeric position (row ids start at 1)
NoId == 0
\* a JavaScript undefined in a timestamp position
NoTime == 0 - 1
\* a JavaScript undefined in a string position
NoStr == "undefined"

\* argon2.hash: an opaque digest of the plaintext
hashPassword(password) == <<"argon2id", password>>

\* a verification that accepts every password
comparePassword_acceptsAny(hash, password) == TRUE

\* argon2.verify
comparePassword(hash, password) == hash = hashPassword(password)

\* the rows of the users table when the server starts
SeedUsers ==
    1 :> [name |-> "Ada", email |-> "ada@example.com",
          password |-> hashPassword("correct-horse")]
    @@
    2 :> [name |-> "Bob", email |-> "bob@example.com",
          password |-> hashPassword("battery-staple")]

\* the login forms a client submits
LoginForms ==
    { [email |-> "ada@example.com", password |-> "correct-horse"],
      [email |-> "bob@example.com", password |-> "battery-staple"],
      [email |-> "ada@example.com", password |-> "wrong-horse"],
      [email |-> "eve@example.com", password |-> "correct-horse"],
      [email |-> "ada@example.com", password |-> "abc"] }

\* a cookie that the request does not carry
NoCookie ==
    [kind |-> "absent", id |-> NoId, name |-> NoStr, email |-> NoStr,
     sessionId |-> NoId, iat |-> NoTime, exp |-> NoTime, sig |-> "none"]

\* a cookie whose value is not a JWT at all
Garbage == [NoCookie EXCEPT !.kind = "garbage"]

\* req.user = null
Anonymous ==
    [kind |-> "null", id |-> NoId, name |-> NoStr, email |-> NoStr,
     sessionId |-> NoId, iat |-> NoTime, exp |-> NoTime]

\* jwt.sign(payload, secret, {expiresIn}): iat and exp are added
jwtSign(id, name, email, sessionId, expiresIn, clock) ==
    [kind |-> "jwt", id |-> id, name |-> name, email |-> email,
     sessionId |-> sessionId, iat |-> clock, exp |-> clock + expiresIn,
     sig |-> "ok"]

\* a token signed with a secret that is not the server's: it claims to be
\* user 1 in session 1 and is far from its expiry at every time of the model
Forged ==
    [kind |-> "jwt", id |-> 1, name |-> "Ada", email |-> "ada@example.com",
     sessionId |-> 1, iat |-> 0,
     exp |-> 100 * (REFRESH_TOKEN_EXPIRY \div MILLISECONDS_PER_SECOND),
     sig |-> "bad"]

\* a verification that checks the signature and not the exp claim
jwtVerifies_ignoresExp(token, clock) ==
    /\ token.kind = "jwt"
    /\ token.sig = "ok"

\* jwt.verify(token, secret) does not throw
jwtVerifies(token, clock) ==
    /\ token.kind = "jwt"
    /\ token.sig = "ok"
    /\ clock < token.exp

\* the decoded payload jwt.verify returns
jwtPayload(token) ==
    [kind |-> "user", id |-> token.id, name |-> token.name,
     email |-> token.email, sessionId |-> token.sessionId,
     iat |-> token.iat, exp |-> token.exp]

verifyJWTToken(token, clock) ==
    IF jwtVerifies(token, clock)
    THEN [ok |-> TRUE, claims |-> jwtPayload(token)]
    ELSE [ok |-> FALSE, claims |-> Anonymous]

\* the access token of the JWT-only scheme, which carries no session id
createAccessToken_noSession(id, name, email, sessionId, clock) ==
    jwtSign(id, name, email, NoId,
            ACCESS_TOKEN_EXPIRY \div MILLISECONDS_PER_SECOND, clock)

createAccessToken(id, name, email, sessionId, clock) ==
    jwtSign(id, name, email, sessionId,
            ACCESS_TOKEN_EXPIRY \div MILLISECONDS_PER_SECOND, clock)

createRefreshToken(sessionId, clock) ==
    jwtSign(NoId, NoStr, NoStr, sessionId,
            REFRESH_TOKEN_EXPIRY \div MILLISECONDS_PER_SECOND, clock)

\* res.cookie(name, value, {maxAge})
SetCookie(name, token, maxAge) ==
    [op |-> "set", name |-> name, val |-> token, maxAge |-> maxAge]

\* a clearCookie that always names the access_token cookie
ClearCookie_accessOnly(name) ==
    [op |-> "clear", name |-> "access_token", val |-> NoCookie, maxAge |-> 0]

\* res.clearCookie(name)
ClearCookie(name) ==
    [op |-> "clear", name |-> name, val |-> NoCookie, maxAge |-> 0]

\* the tokens a response's Set-Cookie headers carry
SetValues(cookies) ==
    {cookies[i].val : i \in {j \in 1..Len(cookies) : cookies[j].op = "set"}}

\* truthiness of a cookie value
Present(cookie) == cookie.kind # "absent"

VARIABLES
    users,          \* users table: id -> row
    sessions,       \* sessions table: id -> row
    nextSessionId,  \* AUTO_INCREMENT counter of the sessions table
    nextUserId,     \* AUTO_INCREMENT counter of the users table
    now,            \* wall clock, in seconds
    advances,       \* how often the clock was moved
    received,       \* how many requests have arrived
    issued,         \* every token a response has handed to a client
    sessionLog,     \* session id -> its owner and the time of its revocation
    reqs,           \* slot -> the request being processed in it
    verifyEmailTokens,  \* is_email_valid table: its rows, in id order
    pendingClears,      \* the bag of clearVerifyEmailTokens calls nobody awaits
    oauthAccounts,      \* oauth_accounts table: its rows, in id order
    shortLinks,         \* short_links table: id -> row
    usedTokens,         \* the verification tokens that verified a user
    nextLinkId,         \* AUTO_INCREMENT counter of the short_links table
    isolation,          \* transaction_isolation of the MySQL server
    driverErrors        \* how the installed drizzle-orm hands on driver errors

\* the tables and tasks the authentication pipeline does not touch
others ==
    <<verifyEmailTokens, pendingClears, oauthAccounts, shortLinks, usedTokens,
      nextLinkId, isolation, driverErrors>>

vars ==
    <<users, sessions, nextSessionId, nextUserId, now, advances, received,
      issued, sessionLog, reqs, others>>

\* the isolation levels a MySQL server runs the transactions of the
\* application at: config/db-client.js creates the pool without setting
\* one, so the level is the one the server is configured with
IsolationLevels == {"REPEATABLE-READ", "READ-COMMITTED"}

\* what a rejected query carries, by the version of drizzle-orm that is
\* installed (the source pins none): the error of mysql2 itself, whose
\* code is the server's error code, or an error that wraps it as its
\* cause and has no code of its own
DriverErrors == {"raw", "wrapped"}

\* nothing in the tables of the verification tokens, of the OAuth accounts
\* and of the short links, and no clean-up under way; the two settings
\* play no part in the requests served then
OthersEmpty ==
    /\ verifyEmailTokens = <<>>
    /\ pendingClears = EmptyBag
    /\ oauthAccounts = <<>>
    /\ shortLinks = <<>>
    /\ usedTokens = {}
    /\ nextLinkId = 1
    /\ isolation = "REPEATABLE-READ"
    /\ driverErrors = "raw"

(* ------------------------------------------------------------------ *)
(* Requests                                                             *)
(* ------------------------------------------------------------------ *)
NoForm == [email |-> NoStr, password |-> NoStr]

\* no row: what a point lookup of the sessions table yields on a miss
NoSession == [found |-> FALSE, id |-> NoId, userId |-> NoId, valid |-> FALSE]

\* a slot in which no request has been received yet.  nextKeyLocks: the
\* transaction the request has open holds next-key locks on every record
\* and every gap of is_email_valid.
IdleReq ==
    [pc |-> "idle", route |-> "none", acc |-> NoCookie, ref |-> NoCookie,
     form |-> NoForm, user |-> Anonymous, cookies |-> <<>>, reads |-> 0,
     sess |-> NoSession, found |-> NoId, start |-> NoTime,
     preRevoked |-> {}, created |-> {}, status |-> "none",
     location |-> NoStr, flash |-> NoStr, fault |-> "none",
     nextKeyLocks |-> FALSE]

\* a request is being processed in the slot
InFlight(r) == r.pc \notin {"idle", "done"}

\* the sessions revoked so far
Revoked == {s \in DOMAIN sessionLog : sessionLog[s].revokedAt # NoTime}

\* loginUserSchema.safeParse: the message of the first issue, or NoStr
loginUserSchema(form) ==
    IF form.email = "not-an-email" THEN "Please enter a valid email"
    ELSE IF Len(form.password) < 5
         THEN "Password must be at least 5 chars long"
         ELSE NoStr

(* ------------------------------------------------------------------ *)
(* services/auth.services.js: the stores                                *)
(* ------------------------------------------------------------------ *)
getUserByEmail(email) ==
    LET hit == {u \in DOMAIN users : users[u].email = email}
    IN IF hit = {} THEN NoId ELSE CHOOSE u \in hit : TRUE

\* a lookup of the users table that finds no row
findUserById_miss(userId) == NoId

findUserById(userId) ==
    IF userId \in DOMAIN users THEN userId ELSE NoId

findSessionById(sessionId) ==
    IF sessionId \in DOMAIN sessions
    THEN [found |-> TRUE, id |-> sessionId,
          userId |-> sessions[sessionId].userId,
          valid |-> sessions[sessionId].valid]
    ELSE NoSession

\* ids handed out as the smallest id no row has, so that the id of a
\* deleted row is given out again
NewSessionId_reusesFreed ==
    CHOOSE n \in 1..nextSessionId :
        /\ n \notin DOMAIN sessions
        /\ \A m \in 1..(n - 1) : m \in DOMAIN sessions

\* the id AUTO_INCREMENT gives the next row of the sessions table
NewSessionId == nextSessionId

\* INSERT INTO sessions: the id comes from the AUTO_INCREMENT counter and
\* the valid column takes its default
createSession(userId, sessionId) ==
    sessions @@ (sessionId :> [userId |-> userId, valid |-> TRUE])

\* a logout whose DELETE matches no row
clearSession_keepsRow(sessionId) == sessions

\* DELETE FROM sessions WHERE id = sessionId
clearSession(sessionId) ==
    [s \in DOMAIN sessions \ {sessionId} |-> sessions[s]]

\* the revocation times after the rows in gone stop being valid sessions
MarkRevoked(gone) ==
    [s \in DOMAIN sessionLog |->
        IF s \in gone /\ sessionLog[s].revokedAt = NoTime
        THEN [sessionLog[s] EXCEPT !.revokedAt = now]
        ELSE sessionLog[s]]

(* ------------------------------------------------------------------ *)
(* The is_email_valid table and the locks of its transactions           *)
(* ------------------------------------------------------------------ *)
\* expiresAt DEFAULT (CURRENT_TIMESTAMP + INTERVAL 1 DAY), in seconds
VerifyTokenLifetime == HOURS_PER_DAY * MINUTES_PER_HOUR * SECONDS_PER_MINUTE

\* what a statement meets: the server runs it, or the driver throws
\* before the server has run it (the connection is gone, the pool is
\* exhausted)
StatementOutcomes == {"runs", "throws"}

\* a statement outside db.transaction is a transaction of its own
Autocommit == "autocommit"

\* a row of is_email_valid as the storage engine holds it.  insertedBy is
\* the transaction that inserted the row and has not committed yet,
\* deletedBy the one that has deleted it and has not committed yet; each
\* holds an exclusive lock on the row until it ends.
TokenRow(userId, token, expiresAt) ==
    [userId |-> userId, token |-> token, expiresAt |-> expiresAt,
     insertedBy |-> NoStr, deletedBy |-> NoStr]

\* what a SELECT outside the open transactions reads: the rows that have
\* been committed, a row another transaction has deleted and not yet
\* committed among them
Committed(rows) ==
    LET Visible(row) == row.insertedBy = NoStr
    IN  SelectSeq(rows, Visible)

\* another transaction holds a lock on the row: it inserted or deleted it,
\* or, at REPEATABLE READ, its DELETE of the expired rows has scanned the
\* table (expires_at has no index) and keeps every record it read locked
LockedByOther(row, tx) ==
    \/ row.insertedBy \notin {NoStr, tx}
    \/ row.deletedBy \notin {NoStr, tx}
    \/ \E t \in DOMAIN reqs : t # tx /\ reqs[t].nextKeyLocks

\* a DELETE waits for the lock of every row it reads: the whole table for
\* the expired rows, the rows of the user for the tokens of a user
CanDeleteExpired(tx) ==
    \A i \in DOMAIN verifyEmailTokens :
        ~LockedByOther(verifyEmailTokens[i], tx)

CanDeleteTokensOfUser(userId, tx) ==
    \A i \in DOMAIN verifyEmailTokens :
        verifyEmailTokens[i].userId = userId =>
            ~LockedByOther(verifyEmailTokens[i], tx)

\* an INSERT waits while another transaction holds a lock on the gap the
\* row goes into; gap locks are taken at REPEATABLE READ only, and two
\* transactions can hold the lock of the same gap
CanInsertToken(tx) ==
    ~\E t \in DOMAIN reqs : t # tx /\ reqs[t].nextKeyLocks

\* DELETE FROM is_email_valid WHERE expires_at < CURRENT_TIMESTAMP
deleteExpiredTokens(rows, tx) ==
    [i \in DOMAIN rows |->
        IF rows[i].expiresAt < now /\ rows[i].deletedBy = NoStr
        THEN [rows[i] EXCEPT !.deletedBy = tx]
        ELSE rows[i]]

\* DELETE FROM is_email_valid WHERE user_id = userId
deleteTokensOfUser(rows, userId, tx) ==
    [i \in DOMAIN rows |->
        IF rows[i].userId = userId /\ rows[i].deletedBy = NoStr
        THEN [rows[i] EXCEPT !.deletedBy = tx]
        ELSE rows[i]]

\* INSERT INTO is_email_valid (user_id, token): expires_at takes its
\* default
insertToken(rows, userId, token, tx) ==
    Append(rows, [TokenRow(userId, token, now + VerifyTokenLifetime)
                     EXCEPT !.insertedBy = tx])

\* COMMIT: the rows the transaction deleted are gone, the rows it
\* inserted are there for everyone
commit(rows, tx) ==
    LET Kept(row) == row.deletedBy # tx
        left == SelectSeq(rows, Kept)
    IN  [i \in DOMAIN left |->
            IF left[i].insertedBy = tx
            THEN [left[i] EXCEPT !.insertedBy = NoStr]
            ELSE left[i]]

\* ROLLBACK: the rows the transaction inserted are gone, the rows it
\* deleted are back
rollback(rows, tx) ==
    LET Kept(row) == row.insertedBy # tx
        left == SelectSeq(rows, Kept)
    IN  [i \in DOMAIN left |->
            IF left[i].deletedBy = tx
            THEN [left[i] EXCEPT !.deletedBy = NoStr]
            ELSE left[i]]

\* the table after the connections of the process are gone: the server
\* rolls back every transaction that was open
rollbackAll(rows) ==
    LET left == Committed(rows)
    IN  [i \in DOMAIN left |-> [left[i] EXCEPT !.deletedBy = NoStr]]

(* ------------------------------------------------------------------ *)
(* middlewares/verify-auth.middleware.js                                *)
(* ------------------------------------------------------------------ *)
\* refreshTokens as it would be without the test of the valid flag
SessionUsable_ignoresValid(s) == s.found

\* refreshTokens goes on with the session it looked up
SessionUsable(s) == s.found /\ s.valid

\* userInfo with the session id under a misspelt key, so that the
\* sessionId claim is undefined
UserInfo_typo(u, sessionId) ==
    [kind |-> "user", id |-> u, name |-> users[u].name,
     email |-> users[u].email, sessionId |-> NoId,
     iat |-> NoTime, exp |-> NoTime]

\* userInfo, the claims refreshTokens derives from the user row
UserInfo(u, sessionId) ==
    [kind |-> "user", id |-> u, name |-> users[u].name,
     email |-> users[u].email, sessionId |-> sessionId,
     iat |-> NoTime, exp |-> NoTime]

\* a catch block that ends the request with a 401 instead of going on
RefreshFailed_responds(r) ==
    [r EXCEPT !.user = Anonymous, !.pc = "done", !.status = "401"]

\* the catch block of the refresh sub-flow
RefreshFailed(r) ==
    [r EXCEPT !.user = Anonymous,
              !.cookies = @ \o <<ClearCookie("access_token"),
                                 ClearCookie("refresh_token")>>,
              !.pc = "handler"]

\* a middleware that looks the session of a verified access token up
\* before it accepts the token
AccessAccepted_checksSession(r, claims) ==
    IF SessionUsable(findSessionById(claims.sessionId))
    THEN [r EXCEPT !.user = claims, !.reads = 1, !.pc = "handler"]
    ELSE RefreshFailed([r EXCEPT !.reads = 1])

\* the access token verified: req.user is its payload and next() is called
AccessAccepted(r, claims) == [r EXCEPT !.user = claims, !.pc = "handler"]

\* verifyAuthentication up to the answer of findSessionById
MiddlewareBegin(r) ==
    LET a == verifyJWTToken(r.acc, now)
        f == verifyJWTToken(r.ref, now)
        s == findSessionById(f.claims.sessionId)
    IN  IF ~Present(r.acc) /\ ~Present(r.ref)
        THEN [r EXCEPT !.user = Anonymous, !.pc = "handler"]
        ELSE IF Present(r.acc) /\ a.ok
        THEN AccessAccepted(r, a.claims)
        ELSE IF Present(r.ref)
        THEN IF ~f.ok THEN RefreshFailed(r)
             ELSE IF ~SessionUsable(s)
                  THEN RefreshFailed([r EXCEPT !.reads = 1])
                  ELSE [r EXCEPT !.reads = 1, !.sess = s,
                                 !.pc = "refreshUser"]
        ELSE [r EXCEPT !.user = Anonymous, !.pc = "handler"]

\* a refresh that rotates the session: the new pair names the row after
\* the one that was looked up
RefreshPair_rotates(info) ==
    <<createAccessToken(info.id, info.name, info.email,
                        info.sessionId + 1, now),
      createRefreshToken(info.sessionId + 1, now)>>

\* the token pair refreshTokens mints from userInfo
RefreshPair(info) ==
    <<createAccessToken(info.id, info.name, info.email, info.sessionId, now),
      createRefreshToken(info.sessionId, now)>>

\* refreshTokens from the answer of findUserById, and the rest of the
\* middleware
MiddlewareEnd(r) ==
    LET u == findUserById(r.sess.userId)
        info == UserInfo(u, r.sess.id)
        pair == RefreshPair(info)
    IN  IF u = NoId
        THEN RefreshFailed([r EXCEPT !.reads = 2])
        ELSE [r EXCEPT
                !.reads = 2,
                !.cookies = @ \o
                    <<SetCookie("access_token", pair[1], ACCESS_TOKEN_EXPIRY),
                      SetCookie("refresh_token", pair[2], REFRESH_TOKEN_EXPIRY)>>,
                !.user = info,
                !.pc = "handler"]

\* the cookie values a client can send: nothing, junk, a forged token, or
\* any token a response ever carried
CookieValues == {NoCookie, Garbage, Forged} \cup issued

\* a request arrives: the middleware runs up to its first database read.
\* The path and the body of the request play no part in the middleware;
\* they are drawn when the router dispatches to the handler.
Receive(slot, acc, ref) ==
    LET r0 == [IdleReq EXCEPT !.acc = acc, !.ref = ref, !.start = now,
                              !.preRevoked = Revoked]
        r1 == MiddlewareBegin(r0)
    IN  /\ ~InFlight(reqs[slot])
        /\ received < MaxRequests
        /\ received' = received + 1
        /\ reqs' = [reqs EXCEPT ![slot] = r1]
        /\ UNCHANGED <<others, nextUserId, users, sessions, nextSessionId,
                       now, advances, issued, sessionLog>>

\* findUserById answers: the refresh sub-flow and the middleware finish
RefreshUser(slot) ==
    LET r == reqs[slot]
        r1 == MiddlewareEnd(r)
    IN  /\ r.pc = "refreshUser"
        /\ reqs' = [reqs EXCEPT ![slot] = r1]
        /\ issued' = issued \cup SetValues(r1.cookies)
        /\ UNCHANGED <<others, nextUserId, users, sessions, nextSessionId,
                       now, advances, received, sessionLog>>

(* ------------------------------------------------------------------ *)
(* controllers/auth.controller.js                                       *)
(* ------------------------------------------------------------------ *)
\* the response is sent: the slot keeps the response, not the request
Finish(r, route, status, location, flash) ==
    [IdleReq EXCEPT !.pc = "done", !.route = route, !.form = r.form,
                    !.user = r.user, !.cookies = r.cookies,
                    !.created = r.created, !.status = status,
                    !.location = location, !.flash = flash]

\* getMe
GetMe(slot) ==
    LET r == reqs[slot]
    IN  /\ r.pc = "handler"
        /\ reqs' = [reqs EXCEPT ![slot] =
              IF r.user.kind = "null"
              THEN Finish(r, "me", "send", NoStr, "Not logged in")
              ELSE Finish(r, "me", "send", NoStr, r.user.name)]
        /\ UNCHANGED <<others, nextUserId, users, sessions, nextSessionId,
                       now, advances, received, issued, sessionLog>>

\* a logout from every device: all the sessions of the user are deleted
LogoutUser_everywhere(slot) ==
    LET r == reqs[slot]
        gone == {s \in DOMAIN sessions :
                    /\ r.user.sessionId \in DOMAIN sessions
                    /\ sessions[s].userId =
                          sessions[r.user.sessionId].userId}
    IN  /\ r.pc = "handler"
        /\ r.user.kind # "null"
        /\ sessions' = [s \in DOMAIN sessions \ gone |-> sessions[s]]
        /\ sessionLog' = MarkRevoked(gone)
        /\ reqs' = [reqs EXCEPT ![slot] =
              Finish([r EXCEPT !.cookies = @ \o
                         <<ClearCookie("access_token"),
                           ClearCookie("refresh_token")>>],
                     "logout", "redirect", "/login", NoStr)]
        /\ UNCHANGED <<others, nextUserId, users, nextSessionId, now,
                       advances, received, issued>>

\* logoutUser: reading req.user.sessionId of a null req.user throws
LogoutUser(slot) ==
    LET r == reqs[slot]
    IN  /\ r.pc = "handler"
        /\ IF r.user.kind = "null"
           THEN /\ reqs' = [reqs EXCEPT ![slot] =
                                Finish(r, "logout", "TypeError", NoStr, NoStr)]
                /\ UNCHANGED <<sessions, sessionLog>>
           ELSE /\ sessions' = clearSession(r.user.sessionId)
                /\ sessionLog' = MarkRevoked({r.user.sessionId})
                /\ reqs' = [reqs EXCEPT ![slot] =
                      Finish([r EXCEPT !.cookies = @ \o
                                 <<ClearCookie("access_token"),
                                   ClearCookie("refresh_token")>>],
                             "logout", "redirect", "/login", NoStr)]
        /\ UNCHANGED <<others, nextUserId, users, nextSessionId, now,
                       advances, received, issued>>

\* postLogin up to the answer of getUserByEmail and the password check
PostLogin(slot, form) ==
    LET r == [reqs[slot] EXCEPT !.form = form]
        issue == loginUserSchema(form)
        u == getUserByEmail(form.email)
    IN  /\ reqs[slot].pc = "handler"
        /\ reqs' = [reqs EXCEPT ![slot] =
              IF r.user.kind # "null"
              THEN Finish(r, "login", "redirect", "/", NoStr)
              ELSE IF issue # NoStr
                   THEN Finish(r, "login", "redirect", "/login", issue)
              ELSE IF u = NoId
                   THEN Finish(r, "login", "redirect", "/login",
                               "Invalid User or Password")
              ELSE IF ~comparePassword(users[u].password, r.form.password)
                   THEN Finish(r, "login", "redirect", "/login",
                               "Invalid User or Password")
              ELSE [IdleReq EXCEPT !.pc = "createSession", !.route = "login",
                                   !.form = form, !.cookies = r.cookies,
                                   !.found = u]]
        /\ UNCHANGED <<others, nextUserId, users, sessions, nextSessionId,
                       now, advances, received, issued, sessionLog>>

\* authenticateUser, called by postLogin for the user row it read
AuthenticateUser(slot) ==
    LET r == reqs[slot]
        u == r.found
        sid == NewSessionId
        accessToken == createAccessToken(u, users[u].name, users[u].email,
                                         sid, now)
        refreshToken == createRefreshToken(sid, now)
    IN  /\ r.pc = "createSession"
        /\ u \in DOMAIN users
        /\ sessions' = createSession(u, sid)
        /\ nextSessionId' = nextSessionId + 1
        /\ sessionLog' = sessionLog @@
              (sid :> [userId |-> u, revokedAt |-> NoTime])
        /\ issued' = issued \cup {accessToken, refreshToken}
        /\ reqs' = [reqs EXCEPT ![slot] =
              Finish([r EXCEPT
                        !.created =
                            {[id |-> s, userId |-> sessions'[s].userId,
                              valid |-> sessions'[s].valid] :
                               s \in DOMAIN sessions' \ DOMAIN sessions},
                        !.cookies = @ \o
                          <<SetCookie("access_token", accessToken,
                                      ACCESS_TOKEN_EXPIRY),
                            SetCookie("refresh_token", refreshToken,
                                      REFRESH_TOKEN_EXPIRY)>>],
                     "login", "redirect", "/", NoStr)]
        /\ UNCHANGED <<others, nextUserId, users, now, advances, received>>

(* ------------------------------------------------------------------ *)
(* The environment                                                      *)
(* ------------------------------------------------------------------ *)
\* UPDATE sessions SET valid = 0 WHERE user_id = userId
InvalidateSessions(userId) ==
    LET hit == {s \in DOMAIN sessions : sessions[s].userId = userId}
    IN  /\ \E s \in hit : sessions[s].valid
        /\ sessions' = [s \in DOMAIN sessions |->
              IF s \in hit THEN [sessions[s] EXCEPT !.valid = FALSE]
              ELSE sessions[s]]
        /\ sessionLog' = MarkRevoked(hit)
        /\ UNCHANGED <<others, nextUserId, users, nextSessionId, now,
                       advances, received, issued, reqs>>

\* time passes
Advance(d) ==
    /\ advances < MaxAdvances
    /\ now' = now + d
    /\ advances' = advances + 1
    /\ UNCHANGED <<others, nextUserId, users, sessions, nextSessionId,
                   received, issued, sessionLog, reqs>>

Init ==
    /\ users = SeedUsers
    /\ nextUserId = Cardinality(DOMAIN SeedUsers) + 1
    /\ sessions = <<>>
    /\ nextSessionId = 1
    /\ now = 0
    /\ advances = 0
    /\ received = 0
    /\ issued = {}
    /\ sessionLog = <<>>
    /\ reqs = [slot \in Slots |-> IdleReq]
    /\ OthersEmpty

Next ==
    \/ \E slot \in Slots, acc \in CookieValues, ref \in CookieValues :
          Receive(slot, acc, ref)
    \/ \E slot \in Slots : RefreshUser(slot)
    \/ \E slot \in Slots : GetMe(slot)
    \/ \E slot \in Slots : LogoutUser(slot)
    \/ \E slot \in Slots, form \in LoginForms : PostLogin(slot, form)
    \/ \E slot \in Slots : AuthenticateUser(slot)
    \/ \E userId \in DOMAIN users : InvalidateSessions(userId)
    \/ \E d \in ClockSteps : Advance(d)

Spec == Init /\ [][Next]_vars

(* ------------------------------------------------------------------ *)
(* Vocabulary of the properties                                         *)
(* ------------------------------------------------------------------ *)
AccessLifetime == ACCESS_TOKEN_EXPIRY \div MILLISECONDS_PER_SECOND

RefreshLifetime == REFRESH_TOKEN_EXPIRY \div MILLISECONDS_PER_SECOND

\* the middleware has called next() and the request is still in the slot
Dispatching(r) == r.pc = "handler"

\* the access_token cookie of the request verified when it arrived
AccessVerified(r) == Present(r.acc) /\ jwtVerifies(r.acc, r.start)

\* a token minted by createAccessToken / by createRefreshToken
IsAccessToken(t) == t \in issued /\ t.id # NoId

IsRefreshToken(t) == t \in issued /\ t.id = NoId

\* the response clears both authentication cookies
ClearsBoth(r) ==
    /\ \E i \in 1..Len(r.cookies) : r.cookies[i] = ClearCookie("access_token")
    /\ \E i \in 1..Len(r.cookies) : r.cookies[i] = ClearCookie("refresh_token")

\* what the response leaves of the named cookie at the client: the last
\* Set-Cookie header for a name is the one that counts
LastOp(r, name) ==
    LET at == {i \in 1..Len(r.cookies) : r.cookies[i].name = name}
    IN  IF at = {} THEN "none"
        ELSE r.cookies[CHOOSE i \in at : \A j \in at : j <= i].op

\* the value a response sets for the named cookie, in a set
SetFor(r, name) ==
    {r.cookies[i].val : i \in {j \in 1..Len(r.cookies) :
        r.cookies[j].op = "set" /\ r.cookies[j].name = name}}

\* a lookup of the session id yields a row whose valid flag is true
LooksValid(s) == findSessionById(s).found /\ findSessionById(s).valid

(* ------------------------------------------------------------------ *)
(* C1                                                                   *)
(* ------------------------------------------------------------------ *)
\* the request arrived after the session named by its refresh_token cookie
\* was revoked, that cookie is the session's unexpired refresh token, and
\* its access token is absent or does not verify
RevokedRefreshCase(r) ==
    /\ r.pc \in {"handler", "refreshUser"}
    /\ ~AccessVerified(r)
    /\ IsRefreshToken(r.ref)
    /\ jwtVerifies(r.ref, r.start)
    /\ r.ref.sessionId \in r.preRevoked

\* C1: a request that arrives after a session was revoked (row deleted by a
\* logout, or valid flag set to false) and presents that session's unexpired
\* refresh token with an absent or failing access token leaves the middleware
\* anonymous with both cookies cleared, and mints no token.
C1_RevokedSessionNeverRefreshes ==
    \A slot \in Slots :
        RevokedRefreshCase(reqs[slot]) =>
            /\ reqs[slot].pc = "handler"
            /\ reqs[slot].user = Anonymous
            /\ ClearsBoth(reqs[slot])
            /\ SetValues(reqs[slot].cookies) = {}

C1_Witness ==
    \E slot \in Slots :
        /\ RevokedRefreshCase(reqs[slot])
        /\ reqs[slot].ref.sessionId \in DOMAIN sessions
        /\ reqs[slot].reads = 1
        /\ reqs[slot].user = Anonymous

(* ------------------------------------------------------------------ *)
(* C2                                                                   *)
(* ------------------------------------------------------------------ *)
\* C2: when the access token of a request verifies, the identity is that
\* token's claims, the middleware has read neither store and written no
\* cookie, whatever the refresh_token cookie holds.
C2_HotPathReadsNothing ==
    \A slot \in Slots :
        LET r == reqs[slot]
        IN  Dispatching(r) /\ AccessVerified(r) =>
                /\ r.user.kind = "user"
                /\ r.user.id = r.acc.id
                /\ r.user.name = r.acc.name
                /\ r.user.email = r.acc.email
                /\ r.user.sessionId = r.acc.sessionId
                /\ r.user.iat = r.acc.iat
                /\ r.user.exp = r.acc.exp
                /\ r.reads = 0
                /\ r.cookies = <<>>

C2_Witness ==
    \E slot \in Slots :
        LET r == reqs[slot]
        IN  /\ Dispatching(r)
            /\ AccessVerified(r)
            /\ IsAccessToken(r.acc)
            /\ IsRefreshToken(r.ref)
            /\ r.ref.sessionId # r.acc.sessionId
            /\ r.ref.sessionId \in Revoked
            /\ r.user.sessionId = r.acc.sessionId

(* ------------------------------------------------------------------ *)
(* C3                                                                   *)
(* ------------------------------------------------------------------ *)
\* C3: a request with at least one cookie, whose access token is absent or
\* fails and whose refresh token is absent or fails the refresh sub-flow,
\* is anonymous and its response clears both cookies.
C3_FullFailureClearsBoth ==
    \A slot \in Slots :
        LET r == reqs[slot]
        IN  /\ Dispatching(r)
            /\ Present(r.acc) \/ Present(r.ref)
            /\ ~AccessVerified(r)
            /\ SetValues(r.cookies) = {}
            => r.user = Anonymous /\ ClearsBoth(r)

(* ------------------------------------------------------------------ *)
(* C4                                                                   *)
(* ------------------------------------------------------------------ *)
\* C4: a refresh token authenticates nobody by itself: whenever the
\* middleware yields an identity without having looked up a session, the
\* request's access_token cookie is not a refresh token, and every identity
\* carries a user id, a name, an email and a session id.
C4_RefreshTokenOnlyRefreshes ==
    \A slot \in Slots :
        LET r == reqs[slot]
        IN  Dispatching(r) /\ r.user.kind = "user" =>
                /\ r.reads = 0 => ~IsRefreshToken(r.acc)
                /\ r.user.id # NoId
                /\ r.user.name # NoStr
                /\ r.user.email # NoStr
                /\ r.user.sessionId # NoId

(* ------------------------------------------------------------------ *)
(* C5                                                                   *)
(* ------------------------------------------------------------------ *)
\* every cookie the request carries is a token issued for session s
OnlyTokensOf(r, s) ==
    /\ Present(r.acc) \/ Present(r.ref)
    /\ Present(r.acc) => r.acc \in issued /\ r.acc.sessionId = s
    /\ Present(r.ref) => r.ref \in issued /\ r.ref.sessionId = s

\* C5: no request that presents only tokens issued for a session is given an
\* identity later than one access-token lifetime (15 minutes) after that
\* session was revoked.
C5_RevocationLatencyIsAccessLifetime ==
    \A slot \in Slots : \A s \in Revoked :
        LET r == reqs[slot]
        IN  /\ Dispatching(r)
            /\ OnlyTokensOf(r, s)
            /\ r.start > sessionLog[s].revokedAt + AccessLifetime
            => r.user = Anonymous

(* ------------------------------------------------------------------ *)
(* C6                                                                   *)
(* ------------------------------------------------------------------ *)
\* C6: a logout request whose identity is anonymous is answered by a
\* redirect to the login page, without an error.
C6_AnonymousLogoutRedirects ==
    \A slot \in Slots :
        LET r == reqs[slot]
        IN  r.pc = "done" /\ r.route = "logout" /\ r.user = Anonymous =>
                r.status = "redirect" /\ r.location = "/login"

(* ------------------------------------------------------------------ *)
(* C7                                                                   *)
(* ------------------------------------------------------------------ *)
\* the session was deleted by a logout before the request arrived
LoggedOutBefore(r, s) == s \in r.preRevoked /\ s \notin DOMAIN sessions

\* C7: when a logout of an identity with session id s has completed, both
\* cookies are cleared and no lookup finds s valid; a later request whose
\* access_token cookie is the session's old access token is still given that
\* token's identity while the token has not expired, and a later request
\* whose only cookie is the session's old refresh token is anonymous.
C7_LogoutAsymmetry ==
    \A slot \in Slots :
        LET r == reqs[slot]
        IN  /\ r.pc = "done" /\ r.route = "logout" /\ r.user.kind = "user" =>
                /\ r.status = "redirect"
                /\ r.location = "/login"
                /\ LastOp(r, "access_token") = "clear"
                /\ LastOp(r, "refresh_token") = "clear"
                /\ ~LooksValid(r.user.sessionId)
            /\ /\ Dispatching(r)
               /\ IsAccessToken(r.acc)
               /\ LoggedOutBefore(r, r.acc.sessionId)
               /\ r.start < r.acc.exp
               => r.user.kind = "user" /\ r.user.sessionId = r.acc.sessionId
            /\ /\ r.pc \in {"handler", "refreshUser"}
               /\ ~Present(r.acc)
               /\ IsRefreshToken(r.ref)
               /\ LoggedOutBefore(r, r.ref.sessionId)
               => r.pc = "handler" /\ r.user = Anonymous

C7_Witness ==
    \E slot \in Slots :
        LET r == reqs[slot]
        IN  /\ Dispatching(r)
            /\ IsAccessToken(r.acc)
            /\ ~Present(r.ref)
            /\ LoggedOutBefore(r, r.acc.sessionId)
            /\ r.user.kind = "user"
            /\ r.user.sessionId = r.acc.sessionId

(* ------------------------------------------------------------------ *)
(* C8                                                                   *)
(* ------------------------------------------------------------------ *)
\* C8: revocation is one-way: no lookup of a session id that was revoked
\* (row deleted, or valid flag set to false) ever yields a valid session
\* again, whatever logins, refreshes and logouts follow.
C8_RevocationIsMonotonic ==
    \A s \in Revoked : ~LooksValid(s)

C8_Witness ==
    \E s \in Revoked : \E t \in DOMAIN sessions :
        /\ s \notin DOMAIN sessions
        /\ t > s
        /\ sessions[t].valid
        /\ sessions[t].userId = sessionLog[s].userId

(* ------------------------------------------------------------------ *)
(* C9                                                                   *)
(* ------------------------------------------------------------------ *)
\* the login in the slot has succeeded
LoggedIn(r) ==
    r.pc = "done" /\ r.route = "login" /\ r.user = Anonymous /\ r.location = "/"

\* C9: a successful login has submitted the email and the password of a
\* user, has inserted exactly one session row, owned by that user and valid,
\* and has set an access token carrying the user's id, name and email and
\* the new session's id; a request that presents only such an access token
\* at the time it was minted is given the id, name and email of the stored
\* user and the id of a session of that user.
C9_LoginThenAccessToken ==
    \A slot \in Slots :
        LET r == reqs[slot]
            u == getUserByEmail(r.form.email)
        IN  /\ LoggedIn(r) =>
                /\ u # NoId
                /\ comparePassword(users[u].password, r.form.password)
                /\ Cardinality(r.created) = 1
                /\ \A row \in r.created :
                      /\ row.userId = u
                      /\ row.valid
                      /\ sessionLog[row.id].userId = u
                      /\ \E t \in SetFor(r, "access_token") :
                            /\ SetFor(r, "access_token") = {t}
                            /\ t.id = u
                            /\ t.name = users[u].name
                            /\ t.email = users[u].email
                            /\ t.sessionId = row.id
                            /\ t.exp = t.iat + AccessLifetime
                            /\ t.sig = "ok"
                      /\ \E f \in SetFor(r, "refresh_token") :
                            /\ SetFor(r, "refresh_token") = {f}
                            /\ f.sessionId = row.id
                            /\ f.exp = f.iat + RefreshLifetime
                            /\ f.sig = "ok"
            /\ /\ Dispatching(r)
               /\ IsAccessToken(r.acc)
               /\ ~Present(r.ref)
               /\ r.start = r.acc.iat
               => /\ r.user.kind = "user"
                  /\ r.user.id \in DOMAIN users
                  /\ r.user.name = users[r.user.id].name
                  /\ r.user.email = users[r.user.id].email
                  /\ r.user.sessionId \in DOMAIN sessionLog
                  /\ sessionLog[r.user.sessionId].userId = r.user.id

C9_Witness ==
    \E slot \in Slots :
        LET r == reqs[slot]
        IN  /\ Dispatching(r)
            /\ IsAccessToken(r.acc)
            /\ ~Present(r.ref)
            /\ r.start = r.acc.iat
            /\ r.user.id = 2
            /\ r.user.name = "Bob"
            /\ r.user.sessionId \in DOMAIN sessions

(* ------------------------------------------------------------------ *)
(* C10                                                                  *)
(* ------------------------------------------------------------------ *)
\* the access token is absent or fails, the refresh token verifies, and the
\* lookups of the refresh sub-flow found a valid session and its user
RefreshableCase(r) ==
    /\ Dispatching(r)
    /\ ~AccessVerified(r)
    /\ Present(r.ref)
    /\ jwtVerifies(r.ref, r.start)
    /\ r.sess.found
    /\ r.sess.valid
    /\ r.sess.id = r.ref.sessionId
    /\ r.sess.userId \in DOMAIN users

\* C10: when the access token is absent or invalid and the refresh token
\* verifies and names a valid session whose user exists, the middleware sets
\* a new access token and a new refresh token as cookies, and the identity
\* and the access token carry the stored id, name and email of the user and
\* the id of the existing session.
C10_RefreshMintsFromStoredUser ==
    \A slot \in Slots :
        LET r == reqs[slot]
            u == r.sess.userId
        IN  RefreshableCase(r) =>
                /\ r.user.kind = "user"
                /\ r.user.id = u
                /\ r.user.name = users[u].name
                /\ r.user.email = users[u].email
                /\ r.user.sessionId = r.sess.id
                /\ Len(r.cookies) = 2
                /\ \E a \in SetFor(r, "access_token") :
                      /\ SetFor(r, "access_token") = {a}
                      /\ a \in issued
                      /\ a.id = u
                      /\ a.name = users[u].name
                      /\ a.email = users[u].email
                      /\ a.sessionId = r.sess.id
                      /\ a.iat >= r.start
                      /\ a.exp = a.iat + AccessLifetime
                      /\ a.sig = "ok"
                /\ \E f \in SetFor(r, "refresh_token") :
                      /\ SetFor(r, "refresh_token") = {f}
                      /\ f \in issued
                      /\ f.id = NoId
                      /\ f.sessionId = r.sess.id
                      /\ f.iat >= r.start
                      /\ f.exp = f.iat + RefreshLifetime
                      /\ f.sig = "ok"

C10_Witness ==
    \E slot \in Slots :
        LET r == reqs[slot]
        IN  /\ RefreshableCase(r)
            /\ IsAccessToken(r.acc)
            /\ r.acc.exp <= r.start
            /\ IsRefreshToken(r.ref)
            /\ r.reads = 2
            /\ r.user.kind = "user"

(* ------------------------------------------------------------------ *)
(* C14                                                                  *)
(* ------------------------------------------------------------------ *)
\* what a client observes of the answer to a login attempt
LoginOutcome(r) ==
    [status |-> r.status, location |-> r.location, flash |-> r.flash,
     created |-> r.created, set |-> SetValues(r.cookies)]

\* the answer to a rejected login
RejectedLogin ==
    [status |-> "redirect", location |-> "/login",
     flash |-> "Invalid User or Password", created |-> {}, set |-> {}]

\* an anonymous request submitted a well-formed login form and has been
\* answered
LoginAnswered(r) ==
    /\ r.pc = "done"
    /\ r.route = "login"
    /\ r.user = Anonymous
    /\ loginUserSchema(r.form) = NoStr

\* the email of the form belongs to no user
UnknownEmail(form) == getUserByEmail(form.email) = NoId

\* the email of the form belongs to a user whose password is another one
WrongPassword(form) ==
    /\ getUserByEmail(form.email) # NoId
    /\ ~(users[getUserByEmail(form.email)].password
            = hashPassword(form.password))

\* C14: a login attempt with an unknown email and a login attempt with a
\* known email and a wrong password are answered alike: the same flash
\* message, the same redirect to the login form, no session row created
\* and no cookie set.
C14_LoginHidesAccountExistence ==
    \A slot \in DOMAIN reqs :
        LET r == reqs[slot]
        IN  LoginAnswered(r) /\ (UnknownEmail(r.form) \/ WrongPassword(r.form))
                => LoginOutcome(r) = RejectedLogin

\* a login with a known email and a wrong password has been rejected
C14_Witness ==
    \E slot \in DOMAIN reqs :
        /\ LoginAnswered(reqs[slot])
        /\ WrongPassword(reqs[slot].form)
        /\ LoginOutcome(reqs[slot]) = RejectedLogin
        /\ \E form \in LoginForms :
              UnknownEmail(form) /\ loginUserSchema(form) = NoStr

(* ------------------------------------------------------------------ *)
(* C18                                                                  *)
(* ------------------------------------------------------------------ *)
\* the step is one of the middleware for the request in the slot: the
\* request arrives, or its refresh sub-flow goes on
MiddlewareStep(slot) ==
    /\ reqs[slot].pc \in {"idle", "done", "refreshUser"}
    /\ reqs'[slot] # reqs[slot]

\* the middleware has refreshed the tokens of the request
Refreshed(r) ==
    /\ r.pc = "handler"
    /\ r.reads = 2
    /\ r.user.kind = "user"

\* C18: a refresh never mutates the sessions table: no row is added,
\* removed or changed by any step of the middleware, and the access and
\* refresh tokens it mints carry the session id of the refresh token that
\* was presented, which is the id the login gave the session.
C18_RefreshLeavesSessionsAlone ==
    [][\A slot \in DOMAIN reqs :
          MiddlewareStep(slot) =>
              /\ sessions' = sessions
              /\ nextSessionId' = nextSessionId
              /\ Refreshed(reqs'[slot]) =>
                    /\ Cardinality(SetValues(reqs'[slot].cookies)) = 2
                    /\ \A t \in SetValues(reqs'[slot].cookies) :
                          /\ t.sessionId = reqs'[slot].ref.sessionId
                          /\ t.sessionId \in DOMAIN sessionLog
                          /\ t.sessionId \in DOMAIN sessions']_vars

\* a request refreshed the tokens of a session some time after the login,
\* and the row of the session is as the login inserted it
C18_Witness ==
    \E slot \in DOMAIN reqs :
        LET r == reqs[slot]
        IN  /\ Refreshed(r)
            /\ r.ref.iat < now
            /\ r.ref.sessionId \in DOMAIN sessions
            /\ sessions[r.ref.sessionId] =
                  [userId |-> r.user.id, valid |-> TRUE]
            /\ \A t \in SetValues(r.cookies) :
                  t.sessionId = r.ref.sessionId /\ t.iat = now

(* ------------------------------------------------------------------ *)
(* C19                                                                  *)
(* ------------------------------------------------------------------ *)
\* the response carries exactly two cookie headers, of the given kind, the
\* first for access_token and the second for refresh_token
WritesBoth(r, op) ==
    /\ Len(r.cookies) = 2
    /\ r.cookies[1].op = op /\ r.cookies[1].name = "access_token"
    /\ r.cookies[2].op = op /\ r.cookies[2].name = "refresh_token"

\* the request entered the refresh sub-flow
TriedRefresh(r) == ~AccessVerified(r) /\ Present(r.ref)

\* C19: when the middleware hands a request over, the response cookies are
\* written only if the refresh sub-flow ran: both are set when it
\* succeeded and both are cleared when it failed.  A request without
\* cookies and a request whose access token verifies have no cookie
\* written.
C19_CookiesWrittenOnlyByRefresh ==
    \A slot \in DOMAIN reqs :
        LET r == reqs[slot]
        IN  Dispatching(r) =>
              /\ r.cookies # <<>> =>
                    /\ TriedRefresh(r)
                    /\ \/ Refreshed(r) /\ WritesBoth(r, "set")
                       \/ r.user = Anonymous /\ WritesBoth(r, "clear")
              /\ Refreshed(r) => WritesBoth(r, "set")
              /\ ~Present(r.acc) /\ ~Present(r.ref) => r.cookies = <<>>
              /\ AccessVerified(r) => r.cookies = <<>>

\* a request whose access token does not verify and whose refresh token
\* is not a token at all is handed over anonymous with both cookies cleared
C19_Witness ==
    \E slot \in DOMAIN reqs :
        LET r == reqs[slot]
        IN  /\ Dispatching(r)
            /\ IsAccessToken(r.acc)
            /\ r.acc.exp <= r.start
            /\ r.ref = Garbage
            /\ r.user = Anonymous
            /\ WritesBoth(r, "clear")

(* ------------------------------------------------------------------ *)
(* C20                                                                  *)
(* ------------------------------------------------------------------ *)
\* the token with a signature that does not match its content
Tampered(t) == [t EXCEPT !.sig = "bad"]

\* the middleware did not take the identity of the request from its
\* access_token cookie
AccessRejected(r) ==
    /\ r.user # jwtPayload(r.acc)
    /\ r.user = Anonymous \/ Refreshed(r)

\* C20: every issued access token expires 15 minutes after it was issued;
\* from its expiry on its verification fails, and before its expiry the
\* verification of the token with a signature that does not match fails.
\* A request that presents an expired access token, or one with a bad
\* signature, is not authenticated by it.
C20_ExpiredOrTamperedAccessFails ==
    /\ \A t \in issued :
          IsAccessToken(t) =>
              /\ t.exp = t.iat + 15 * SECONDS_PER_MINUTE
              /\ now >= t.exp => ~verifyJWTToken(t, now).ok
              /\ now < t.exp => ~verifyJWTToken(Tampered(t), now).ok
    /\ \A slot \in DOMAIN reqs :
          LET r == reqs[slot]
          IN  /\ Dispatching(r) /\ IsAccessToken(r.acc) /\ r.start >= r.acc.exp
                    => AccessRejected(r)
              /\ Dispatching(r) /\ r.acc.kind = "jwt" /\ r.acc.sig # "ok"
                    => AccessRejected(r)

\* a request presented an access token at the very second of its expiry,
\* with no refresh token, and was handed over anonymous
C20_Witness ==
    \E slot \in DOMAIN reqs :
        LET r == reqs[slot]
        IN  /\ Dispatching(r)
            /\ IsAccessToken(r.acc)
            /\ r.start = r.acc.exp
            /\ ~Present(r.ref)
            /\ r.user = Anonymous

(* ------------------------------------------------------------------ *)
(* Storage failures and the deletion of users                           *)
(* ------------------------------------------------------------------ *)
\* how a request ends whose async handler rejects and catches nothing:
\* the router answers 500 where it forwards a rejected promise to its
\* error handler, and sends no answer at all where it does not
UnhandledOutcomes == {"500", "unhandledRejection"}

\* a request arrives, no more than MaxFaultRequests of them
ReceiveBounded(slot, acc, ref) ==
    /\ received < MaxFaultRequests
    /\ Receive(slot, acc, ref)

\* a request arrives and the findSessionById of its refresh sub-flow
\* throws: refreshTokens rethrows and the catch block of the middleware
\* runs
ReceiveStorageFault(slot, acc, ref) ==
    LET r0 == [IdleReq EXCEPT !.acc = acc, !.ref = ref, !.start = now,
                              !.preRevoked = Revoked]
    IN  /\ ~InFlight(reqs[slot])
        /\ received < MaxFaultRequests
        /\ MiddlewareBegin(r0).reads = 1
        /\ received' = received + 1
        /\ reqs' = [reqs EXCEPT ![slot] =
              RefreshFailed([r0 EXCEPT !.fault = "findSessionById"])]
        /\ UNCHANGED <<others, nextUserId, users, sessions, nextSessionId,
                       now, advances, issued, sessionLog>>

\* the findUserById of the refresh sub-flow throws
RefreshUserStorageFault(slot) ==
    LET r == reqs[slot]
    IN  /\ r.pc = "refreshUser"
        /\ reqs' = [reqs EXCEPT ![slot] =
              RefreshFailed([r EXCEPT !.fault = "findUserById"])]
        /\ UNCHANGED <<others, nextUserId, users, sessions, nextSessionId,
                       now, advances, received, issued, sessionLog>>

\* the createSession of authenticateUser throws: postLogin awaits it
\* without a try, so the handler's promise rejects
AuthenticateUserStorageFault(slot, outcome) ==
    LET r == reqs[slot]
    IN  /\ r.pc = "createSession"
        /\ reqs' = [reqs EXCEPT ![slot] =
              [Finish(r, "login", outcome, NoStr, NoStr)
                  EXCEPT !.fault = "createSession"]]
        /\ UNCHANGED <<others, nextUserId, users, sessions, nextSessionId,
                       now, advances, received, issued, sessionLog>>

\* the INSERT of createSession for a user whose row a DELETE removed after
\* getUserByEmail had answered: sessions.user_id references users.id, the
\* statement is refused (ER_NO_REFERENCED_ROW_2) after it has taken its
\* AUTO_INCREMENT value, and postLogin, which awaits authenticateUser
\* without a try, rejects
AuthenticateUserForeignKey(slot, outcome) ==
    LET r == reqs[slot]
    IN  /\ r.pc = "createSession"
        /\ r.found \notin DOMAIN users
        /\ nextSessionId' = nextSessionId + 1
        /\ reqs' = [reqs EXCEPT ![slot] =
              [Finish(r, "login", outcome, NoStr, NoStr)
                  EXCEPT !.fault = "ER_NO_REFERENCED_ROW_2"]]
        /\ UNCHANGED <<others, nextUserId, users, sessions, now, advances,
                       received, issued, sessionLog>>

\* DELETE FROM users WHERE id = userId, at any moment between two
\* statements of the requests in flight.  The sessions and the
\* verification tokens of the user go with the row (ON DELETE CASCADE);
\* short_links.user_id references users.id without a cascade, so the
\* DELETE of a user who owns a short link is refused and changes nothing.
\* The schema of oauth_accounts is not part of the source: the action
\* covers the users without a row in that table.  The cascade waits for
\* the locks on the rows it deletes.
DeleteUser(userId) ==
    LET hit == {s \in DOMAIN sessions : sessions[s].userId = userId}
    IN  /\ \A id \in DOMAIN shortLinks : shortLinks[id].userId # userId
        /\ \A i \in DOMAIN oauthAccounts : oauthAccounts[i].userId # userId
        /\ CanDeleteTokensOfUser(userId, Autocommit)
        /\ users' = [u \in DOMAIN users \ {userId} |-> users[u]]
        /\ sessions' = [s \in DOMAIN sessions \ hit |-> sessions[s]]
        /\ sessionLog' = MarkRevoked(hit)
        /\ verifyEmailTokens' =
              commit(deleteTokensOfUser(verifyEmailTokens, userId, Autocommit),
                     Autocommit)
        /\ UNCHANGED <<isolation, driverErrors,
                       pendingClears, oauthAccounts, shortLinks, usedTokens,
                       nextLinkId, nextUserId, nextSessionId, now, advances,
                       received, issued, reqs>>

NextFault ==
    \/ \E slot \in Slots, acc \in CookieValues, ref \in CookieValues :
          ReceiveBounded(slot, acc, ref)
    \/ \E slot \in Slots, acc \in CookieValues, ref \in CookieValues :
          ReceiveStorageFault(slot, acc, ref)
    \/ \E slot \in Slots : RefreshUser(slot)
    \/ \E slot \in Slots : RefreshUserStorageFault(slot)
    \/ \E slot \in Slots : GetMe(slot)
    \/ \E slot \in Slots : LogoutUser(slot)
    \/ \E slot \in Slots, form \in LoginForms : PostLogin(slot, form)
    \/ \E slot \in Slots : AuthenticateUser(slot)
    \/ \E slot \in Slots, outcome \in UnhandledOutcomes :
          AuthenticateUserStorageFault(slot, outcome)
    \/ \E slot \in Slots, outcome \in UnhandledOutcomes :
          AuthenticateUserForeignKey(slot, outcome)
    \/ \E userId \in DOMAIN users : InvalidateSessions(userId)
    \/ \E userId \in DOMAIN users : DeleteUser(userId)
    \/ \E d \in ClockSteps : Advance(d)

SpecFault == Init /\ [][NextFault]_vars

(* ------------------------------------------------------------------ *)
(* C16                                                                  *)
(* ------------------------------------------------------------------ *)
\* C16: whatever the cookies of a request are and whichever step of the
\* refresh sub-flow fails, every step of the middleware leaves the request
\* either waiting for the user row or handed over to its route handler,
\* with no response sent; it is handed over with req.user null, or with
\* the identity of a verified access token or of a successful refresh.
C16_MiddlewareAlwaysCallsNext ==
    [][\A slot \in DOMAIN reqs :
          MiddlewareStep(slot) =>
              LET r == reqs'[slot]
              IN  /\ r.pc \in {"refreshUser", "handler"}
                  /\ r.status = "none"
                  /\ r.location = NoStr
                  /\ r.pc = "handler" =>
                        \/ r.user = Anonymous
                        \/ r.user.kind = "user" /\ AccessVerified(r)
                        \/ Refreshed(r)
                  /\ r.pc = "handler" /\ r.fault # "none" =>
                        r.user = Anonymous]_vars

\* the user of a session was deleted while a refresh for the session was
\* waiting for the user row: the request is handed over anonymous
C16_Witness ==
    \E slot \in DOMAIN reqs :
        LET r == reqs[slot]
        IN  /\ Dispatching(r)
            /\ r.reads = 2
            /\ r.sess.found
            /\ r.sess.userId \notin DOMAIN users
            /\ r.user = Anonymous
            /\ r.status = "none"

(* ------------------------------------------------------------------ *)
(* C17                                                                  *)
(* ------------------------------------------------------------------ *)
\* C17: a request during which a lookup of the refresh sub-flow or the
\* creation of the session failed in the storage ends with a server
\* error, and no authentication cookie is set or cleared on its response.
C17_StorageFailureFailsTheRequest ==
    \A slot \in DOMAIN reqs :
        LET r == reqs[slot]
        IN  r.fault # "none" =>
              /\ r.pc = "done"
              /\ r.status = "500"
              /\ SetValues(r.cookies) = {}
              /\ r.fault \notin {"createSession", "ER_NO_REFERENCED_ROW_2"} =>
                    r.cookies = <<>>

(* ------------------------------------------------------------------ *)
(* Two requests at a time, after a login                                *)
(* ------------------------------------------------------------------ *)
\* the server after Ada logged in at time 0: her session row, and the
\* token pair of the login in the hands of her client
InitConcurrent ==
    /\ users = SeedUsers
    /\ nextUserId = Cardinality(DOMAIN SeedUsers) + 1
    /\ sessions = (1 :> [userId |-> 1, valid |-> TRUE])
    /\ nextSessionId = 2
    /\ now = 0
    /\ advances = 0
    /\ received = 0
    /\ issued = {createAccessToken(1, SeedUsers[1].name, SeedUsers[1].email,
                                   1, 0),
                 createRefreshToken(1, 0)}
    /\ sessionLog = (1 :> [userId |-> 1, revokedAt |-> NoTime])
    /\ reqs = [slot \in Clients |-> IdleReq]
    /\ OthersEmpty

\* a request arrives at a server that may be busy with another one
ReceiveConcurrent(slot, acc, ref) ==
    LET r0 == [IdleReq EXCEPT !.acc = acc, !.ref = ref, !.start = now,
                              !.preRevoked = Revoked]
    IN  /\ ~InFlight(reqs[slot])
        /\ received < MaxConcurrentRequests
        /\ received' = received + 1
        /\ reqs' = [reqs EXCEPT ![slot] = MiddlewareBegin(r0)]
        /\ UNCHANGED <<others, nextUserId, users, sessions, nextSessionId,
                       now, advances, issued, sessionLog>>

\* what the two clients send: no cookie, or a token a response has set
ClientCookies == {NoCookie} \cup issued

NextConcurrent ==
    \/ \E slot \in Clients, acc \in ClientCookies, ref \in ClientCookies :
          ReceiveConcurrent(slot, acc, ref)
    \/ \E slot \in Clients : RefreshUser(slot)
    \/ \E slot \in Clients : GetMe(slot)
    \/ \E slot \in Clients : LogoutUser(slot)
    \/ \E userId \in DOMAIN users : InvalidateSessions(userId)
    \/ \E d \in ClockSteps : Advance(d)

SpecConcurrent == InitConcurrent /\ [][NextConcurrent]_vars

(* ------------------------------------------------------------------ *)
(* C15                                                                  *)
(* ------------------------------------------------------------------ *)
\* C15: whatever other requests do at the same time, a request that
\* enters the refresh sub-flow with an unexpired refresh token of a
\* session that has not been revoked is refreshed: it is handed over with
\* the identity of the session and both cookies set.  Every access token
\* ever issued, by the login or by any of the refreshes, authenticates
\* until its own expiry.  So neither of two refreshes of the same token
\* invalidates what the other one minted.
C15_ConcurrentRefreshesBothSucceed ==
    \A slot \in DOMAIN reqs :
        LET r == reqs[slot]
        IN  /\ /\ Dispatching(r)
               /\ TriedRefresh(r)
               /\ IsRefreshToken(r.ref)
               /\ r.start < r.ref.exp
               /\ r.ref.sessionId \notin Revoked
               => /\ Refreshed(r)
                  /\ r.user.sessionId = r.ref.sessionId
                  /\ WritesBoth(r, "set")
                  /\ \A t \in SetValues(r.cookies) :
                        /\ t.sessionId = r.ref.sessionId
                        /\ r.start <= t.iat
                        /\ t.iat <= now
            /\ /\ Dispatching(r)
               /\ IsAccessToken(r.acc)
               /\ r.start < r.acc.exp
               => r.user = jwtPayload(r.acc)

\* two requests that presented the same refresh token and no access token
\* are past the middleware together, neither answered yet: both were
\* refreshed, each with a pair of its own, and the second arrived before
\* the first had read the session
C15_Witness ==
    \E a \in DOMAIN reqs, b \in DOMAIN reqs :
        /\ a # b
        /\ Dispatching(reqs[a])
        /\ Dispatching(reqs[b])
        /\ reqs[a].ref = reqs[b].ref
        /\ ~Present(reqs[a].acc)
        /\ ~Present(reqs[b].acc)
        /\ Refreshed(reqs[a])
        /\ Refreshed(reqs[b])
        /\ WritesBoth(reqs[a], "set")
        /\ WritesBoth(reqs[b], "set")
        /\ SetValues(reqs[a].cookies) # SetValues(reqs[b].cookies)
        /\ \A t \in SetValues(reqs[a].cookies) : reqs[b].start < t.iat

(* ------------------------------------------------------------------ *)
(* Registration                                                         *)
(* ------------------------------------------------------------------ *)
\* the registration forms a client submits: a new user, someone else
\* with the same email, a user that exists, and a name that is too short
RegisterForms ==
    { [name |-> "Eve", email |-> "eve@example.com",
       password |-> "open-sesame"],
      [name |-> "Eva", email |-> "eve@example.com",
       password |-> "shut-sesame"],
      [name |-> "Ada", email |-> "ada@example.com",
       password |-> "correct-horse"],
      [name |-> "Al", email |-> "al@example.com",
       password |-> "long-enough"],
      [name |-> "Dan", email |-> "dan@example.com",
       password |-> "long-enough"] }

\* registerUserSchema.safeParse: the schema of the login form extended by
\* the name; the message of the first issue, or NoStr
registerUserSchema(form) ==
    IF loginUserSchema(form) # NoStr THEN loginUserSchema(form)
    ELSE IF Len(form.name) < 3 THEN "Name must be at least 3 chars long"
    ELSE IF Len(form.name) > 100 THEN "Name must be less than 100 chars"
    ELSE NoStr

\* a users table without the unique index on the email column
EmailTaken_noIndex(email) == FALSE

\* the unique index on users.email rejects the insert of this email
EmailTaken(email) == \E u \in DOMAIN users : users[u].email = email

\* the id AUTO_INCREMENT gives the next row of the users table
NewUserId == nextUserId

\* INSERT INTO users
createUser(userId, name, email, password) ==
    users @@ (userId :> [name |-> name, email |-> email,
                         password |-> password])

\* a request arrives while users register
ReceiveRegister(slot, acc, ref) ==
    LET r0 == [IdleReq EXCEPT !.acc = acc, !.ref = ref, !.start = now,
                              !.preRevoked = Revoked]
    IN  /\ ~InFlight(reqs[slot])
        /\ received < MaxRegisterRequests
        /\ received' = received + 1
        /\ reqs' = [reqs EXCEPT ![slot] = MiddlewareBegin(r0)]
        /\ UNCHANGED <<others, nextUserId, users, sessions, nextSessionId,
                       now, advances, issued, sessionLog>>

\* postRegister up to the answer of getUserByEmail
PostRegister(slot, form) ==
    LET r == [reqs[slot] EXCEPT !.form = form]
        issue == registerUserSchema(form)
    IN  /\ reqs[slot].pc = "handler"
        /\ reqs' = [reqs EXCEPT ![slot] =
              IF r.user.kind # "null"
              THEN Finish(r, "register", "redirect", "/", NoStr)
              ELSE IF issue # NoStr
                   THEN Finish(r, "register", "redirect", "/register", issue)
              ELSE IF getUserByEmail(form.email) # NoId
                   THEN Finish(r, "register", "redirect", "/register",
                               "User Already Exists.")
              ELSE [IdleReq EXCEPT !.pc = "createUser", !.route = "register",
                                   !.form = form, !.cookies = r.cookies]]
        /\ UNCHANGED <<others, nextUserId, users, sessions, nextSessionId,
                       now, advances, received, issued, sessionLog>>

\* postRegister: hashPassword and createUser.  The insert of an email
\* that got a row in the meantime violates the unique index; createUser
\* throws and postRegister catches nothing.  The refused INSERT has taken
\* its id from the counter.
CreateUser(slot, outcome) ==
    LET r == reqs[slot]
        u == NewUserId
    IN  /\ r.pc = "createUser"
        /\ IF EmailTaken(r.form.email)
           THEN /\ users' = users
                /\ reqs' = [reqs EXCEPT ![slot] =
                      Finish(r, "register", outcome, NoStr, NoStr)]
           ELSE /\ users' = createUser(u, r.form.name, r.form.email,
                                       hashPassword(r.form.password))
                /\ reqs' = [reqs EXCEPT ![slot] =
                      [r EXCEPT !.pc = "registerSession", !.found = u]]
        /\ nextUserId' = nextUserId + 1
        /\ UNCHANGED <<others, sessions, nextSessionId, now, advances,
                       received, issued, sessionLog>>

\* the registration of the first hybrid version: the user is sent to the
\* login form and no session is opened
RegisterAuthenticate_redirectsToLogin(slot) ==
    LET r == reqs[slot]
    IN  /\ r.pc = "registerSession"
        /\ reqs' = [reqs EXCEPT ![slot] =
              Finish(r, "register", "redirect", "/login", NoStr)]
        /\ UNCHANGED <<others, nextUserId, users, sessions, nextSessionId,
                       now, advances, received, issued, sessionLog>>

\* authenticateUser, called by postRegister for the row it inserted: the
\* row createUser returns has an id only, the name and the email of the
\* tokens are those of the form
RegisterAuthenticate(slot) ==
    LET r == reqs[slot]
        u == r.found
        sid == NewSessionId
        accessToken == createAccessToken(u, r.form.name, r.form.email,
                                         sid, now)
        refreshToken == createRefreshToken(sid, now)
    IN  /\ r.pc = "registerSession"
        /\ sessions' = createSession(u, sid)
        /\ nextSessionId' = nextSessionId + 1
        /\ sessionLog' = sessionLog @@
              (sid :> [userId |-> u, revokedAt |-> NoTime])
        /\ issued' = issued \cup {accessToken, refreshToken}
        /\ reqs' = [reqs EXCEPT ![slot] =
              [r EXCEPT
                 !.pc = "sendVerifyEmail",
                 !.created = {[id |-> sid, userId |-> u, valid |-> TRUE]},
                 !.cookies = @ \o
                    <<SetCookie("access_token", accessToken,
                                ACCESS_TOKEN_EXPIRY),
                      SetCookie("refresh_token", refreshToken,
                                REFRESH_TOKEN_EXPIRY)>>]]
        /\ UNCHANGED <<others, nextUserId, users, now, advances, received>>

\* sendNewVerifyEmailLink, then the rest of postRegister: the mail with
\* the verification link leaves, the user is sent to the verification page
SendNewVerifyEmailLink(slot) ==
    LET r == reqs[slot]
    IN  /\ r.pc = "sendVerifyEmail"
        /\ reqs' = [reqs EXCEPT ![slot] =
              Finish(r, "register", "redirect", "/verify-email",
                     "Verification link sent to your email. Please check your inbox for the 8-digit code.")]
        /\ UNCHANGED <<others, nextUserId, users, sessions, nextSessionId,
                       now, advances, received, issued, sessionLog>>

InitRegister ==
    /\ users = SeedUsers
    /\ nextUserId = Cardinality(DOMAIN SeedUsers) + 1
    /\ sessions = <<>>
    /\ nextSessionId = 1
    /\ now = 0
    /\ advances = 0
    /\ received = 0
    /\ issued = {}
    /\ sessionLog = <<>>
    /\ reqs = [slot \in Clients |-> IdleReq]
    /\ OthersEmpty

NextRegister ==
    \/ \E slot \in Clients, acc \in CookieValues, ref \in CookieValues :
          ReceiveRegister(slot, acc, ref)
    \/ \E slot \in Clients : RefreshUser(slot)
    \/ \E slot \in Clients, form \in RegisterForms : PostRegister(slot, form)
    \/ \E slot \in Clients, outcome \in UnhandledOutcomes :
          CreateUser(slot, outcome)
    \/ \E slot \in Clients : RegisterAuthenticate(slot)
    \/ \E slot \in Clients : SendNewVerifyEmailLink(slot)

SpecRegister == InitRegister /\ [][NextRegister]_vars

(* ------------------------------------------------------------------ *)
(* C11                                                                  *)
(* ------------------------------------------------------------------ *)
\* no two rows of the table of users have the same email
UniqueEmails ==
    \A u \in DOMAIN users, v \in DOMAIN users :
        users[u].email = users[v].email => u = v

\* an anonymous request submitted a well-formed registration form
RegistrationOf(r) ==
    /\ r.route = "register"
    /\ r.user = Anonymous
    /\ registerUserSchema(r.form) = NoStr

\* C11: after every step, whatever the interleaving of the registrations,
\* no two rows of the users table have the same email; and a registration
\* of an email that has a row when the handler looks it up is answered
\* with "User Already Exists." and leaves the table as it was.
C11_EmailsStayUnique ==
    [][/\ UniqueEmails'
       /\ \A slot \in DOMAIN reqs :
             /\ reqs[slot].pc = "handler"
             /\ reqs'[slot].pc # "handler"
             /\ RegistrationOf(reqs'[slot])
             /\ \E u \in DOMAIN users :
                   users[u].email = reqs'[slot].form.email
             => /\ users' = users
                /\ reqs'[slot].pc = "done"
                /\ reqs'[slot].status = "redirect"
                /\ reqs'[slot].location = "/register"
                /\ reqs'[slot].flash = "User Already Exists."]_vars

\* two registrations of one email both passed the lookup; one of them
\* inserted its row and the insert of the other one was refused, so the
\* email has one row
C11_Witness ==
    \E a \in DOMAIN reqs, b \in DOMAIN reqs :
        /\ a # b
        /\ reqs[a].pc = "done" /\ RegistrationOf(reqs[a])
        /\ reqs[b].pc = "done" /\ RegistrationOf(reqs[b])
        /\ reqs[a].form.email = reqs[b].form.email
        /\ reqs[a].location = "/verify-email"
        /\ reqs[b].status \in UnhandledOutcomes
        /\ Cardinality({u \in DOMAIN users :
                           users[u].email = reqs[a].form.email}) = 1

(* ------------------------------------------------------------------ *)
(* C12                                                                  *)
(* ------------------------------------------------------------------ *)
\* C12: a well-formed registration that ends without having registered
\* its user, because the email has a row, is answered as the duplicate it
\* is: the redirect to the registration form with "User Already Exists.",
\* also when the row appeared between its lookup and its insert.
C12_DuplicateRaceIsTypedError ==
    \A slot \in DOMAIN reqs :
        LET r == reqs[slot]
        IN  r.pc = "done" /\ RegistrationOf(r) /\ r.created = {}
              => /\ r.status = "redirect"
                 /\ r.location = "/register"
                 /\ r.flash = "User Already Exists."

(* ------------------------------------------------------------------ *)
(* C13                                                                  *)
(* ------------------------------------------------------------------ *)
\* the request registered the user of its form and has been answered
Registered(r) ==
    /\ r.pc = "done"
    /\ RegistrationOf(r)
    /\ r.status = "redirect"
    /\ r.location # "/register"
    /\ \E u \in DOMAIN users :
          /\ users[u].email = r.form.email
          /\ users[u].name = r.form.name
          /\ users[u].password = hashPassword(r.form.password)

\* C13: a registration that succeeded has logged its user in: the request
\* inserted one session row, owned by the new user and valid, the row is
\* in the table, and the response sets the access_token and refresh_token
\* cookies to tokens of that session, the access token with the id, name
\* and email of the new user.
C13_RegistrationLogsIn ==
    \A slot \in DOMAIN reqs :
        LET r == reqs[slot]
        IN  Registered(r) =>
              /\ Cardinality(r.created) = 1
              /\ \A row \in r.created :
                    /\ row.valid
                    /\ row.userId \in DOMAIN users
                    /\ users[row.userId].email = r.form.email
                    /\ row.id \in DOMAIN sessions
                    /\ sessions[row.id] =
                          [userId |-> row.userId, valid |-> TRUE]
                    /\ LastOp(r, "access_token") = "set"
                    /\ LastOp(r, "refresh_token") = "set"
                    /\ \A t \in SetFor(r, "access_token") :
                          /\ t.sessionId = row.id
                          /\ t.id = row.userId
                          /\ t.name = r.form.name
                          /\ t.email = r.form.email
                          /\ jwtVerifies(t, now)
                    /\ \A t \in SetFor(r, "refresh_token") :
                          t.sessionId = row.id /\ jwtVerifies(t, now)

\* a new user registered and was answered with both cookies set
C13_Witness ==
    \E slot \in DOMAIN reqs :
        LET r == reqs[slot]
        IN  /\ Registered(r)
            /\ r.form.email \notin {SeedUsers[u].email : u \in DOMAIN SeedUsers}
            /\ r.location = "/verify-email"
            /\ SetFor(r, "access_token") # {}
            /\ SetFor(r, "refresh_token") # {}
            /\ r.created # {}

(* ------------------------------------------------------------------ *)
(* The days after a login                                               *)
(* ------------------------------------------------------------------ *)
\* the amounts by which the clock moves between two requests of a client
\* that comes back after six days, or after two: in seconds
DaySteps ==
    { 6 * HOURS_PER_DAY * MINUTES_PER_HOUR * SECONDS_PER_MINUTE,
      2 * HOURS_PER_DAY * MINUTES_PER_HOUR * SECONDS_PER_MINUTE }

\* the server after Ada logged in at time 0, serving one request at a time
InitDays ==
    /\ users = SeedUsers
    /\ nextUserId = Cardinality(DOMAIN SeedUsers) + 1
    /\ sessions = (1 :> [userId |-> 1, valid |-> TRUE])
    /\ nextSessionId = 2
    /\ now = 0
    /\ advances = 0
    /\ received = 0
    /\ issued = {createAccessToken(1, SeedUsers[1].name, SeedUsers[1].email,
                                   1, 0),
                 createRefreshToken(1, 0)}
    /\ sessionLog = (1 :> [userId |-> 1, revokedAt |-> NoTime])
    /\ reqs = [slot \in Slots |-> IdleReq]
    /\ OthersEmpty

\* days pass while no request is in progress
AdvanceDays(d) ==
    /\ \A t \in DOMAIN reqs : ~InFlight(reqs[t])
    /\ advances < MaxAdvances
    /\ now' = now + d
    /\ advances' = advances + 1
    /\ UNCHANGED <<others, nextUserId, users, sessions, nextSessionId,
                   received, issued, sessionLog, reqs>>

NextDays ==
    \/ \E slot \in Slots, acc \in CookieValues, ref \in CookieValues :
          ReceiveConcurrent(slot, acc, ref)
    \/ \E slot \in Slots : RefreshUser(slot)
    \/ \E slot \in Slots : GetMe(slot)
    \/ \E slot \in Slots : LogoutUser(slot)
    \/ \E userId \in DOMAIN users : InvalidateSessions(userId)
    \/ \E d \in DaySteps : AdvanceDays(d)

SpecDays == InitDays /\ [][NextDays]_vars

(* ------------------------------------------------------------------ *)
(* C21                                                                  *)
(* ------------------------------------------------------------------ *)
\* the time of the login that created the session: the tokens of the
\* login are the first ones issued for it
LoginTime(sid) ==
    LET at == {t.iat : t \in {x \in issued : x.sessionId = sid}}
    IN  CHOOSE i \in at : \A j \in at : i <= j

\* C21: a request is handed over with an identity only while fewer than
\* 7 days have passed since the login that created the session of the
\* identity, however many refreshes there were in between.
C21_LoginLastsAtMostSevenDays ==
    \A slot \in DOMAIN reqs :
        LET r == reqs[slot]
        IN  /\ Dispatching(r)
            /\ r.user.kind = "user"
            /\ r.user.sessionId \in DOMAIN sessionLog
            => r.start < LoginTime(r.user.sessionId) + RefreshLifetime

(* ------------------------------------------------------------------ *)
(* Several devices                                                      *)
(* ------------------------------------------------------------------ *)
\* the logins that have happened when the server is looked at: Ada on
\* two devices and Bob on one, all at time 0
SeedLogins == (1 :> 1) @@ (2 :> 1) @@ (3 :> 2)

\* the server after the logins of SeedLogins
InitDevices ==
    /\ users = SeedUsers
    /\ nextUserId = Cardinality(DOMAIN SeedUsers) + 1
    /\ sessions = [s \in DOMAIN SeedLogins |->
                      [userId |-> SeedLogins[s], valid |-> TRUE]]
    /\ nextSessionId = 4
    /\ now = 0
    /\ advances = 0
    /\ received = 0
    /\ issued =
          {createAccessToken(SeedLogins[s], SeedUsers[SeedLogins[s]].name,
                             SeedUsers[SeedLogins[s]].email, s, 0) :
              s \in DOMAIN SeedLogins}
          \cup {createRefreshToken(s, 0) : s \in DOMAIN SeedLogins}
    /\ sessionLog = [s \in DOMAIN SeedLogins |->
                        [userId |-> SeedLogins[s], revokedAt |-> NoTime]]
    /\ reqs = [slot \in Slots |-> IdleReq]
    /\ OthersEmpty

NextDevices ==
    \/ \E slot \in Slots, acc \in CookieValues, ref \in CookieValues :
          ReceiveBounded(slot, acc, ref)
    \/ \E slot \in Slots : RefreshUser(slot)
    \/ \E slot \in Slots : GetMe(slot)
    \/ \E slot \in Slots : LogoutUser(slot)
    \/ \E d \in ClockSteps : Advance(d)

SpecDevices == InitDevices /\ [][NextDevices]_vars

(* ------------------------------------------------------------------ *)
(* C27                                                                  *)
(* ------------------------------------------------------------------ *)
\* the step is the logout of the request in the slot
LogoutStep(slot) ==
    /\ reqs[slot].pc = "handler"
    /\ reqs'[slot].pc = "done"
    /\ reqs'[slot].route = "logout"

\* every request that entered the refresh sub-flow with an unexpired
\* refresh token of a session that has not been revoked is refreshed
UnrevokedRefreshes ==
    \A slot \in DOMAIN reqs :
        LET r == reqs[slot]
        IN  /\ Dispatching(r)
            /\ TriedRefresh(r)
            /\ IsRefreshToken(r.ref)
            /\ r.start < r.ref.exp
            /\ r.ref.sessionId \notin Revoked
            => /\ Refreshed(r)
               /\ r.user.sessionId = r.ref.sessionId

\* C27: a logout removes no session row but the one named by the
\* sessionId of the identity of the request, and changes no other row:
\* the sessions of the same user on other devices and those of other
\* users stay as they were.  A refresh token of a session that was not
\* logged out goes on being refreshed.
C27_LogoutRevokesOnlyItsSession ==
    [][/\ \A slot \in DOMAIN reqs :
             LogoutStep(slot) =>
                 /\ \A s \in DOMAIN sessions \ {reqs[slot].user.sessionId} :
                       /\ s \in DOMAIN sessions'
                       /\ sessions'[s] = sessions[s]
                 /\ DOMAIN sessions' \subseteq DOMAIN sessions
                 /\ users' = users
       /\ UnrevokedRefreshes']_vars

\* a session of a user has been logged out and, after that, a request
\* with the refresh token of another session of the same user is refreshed
C27_Witness ==
    \E slot \in DOMAIN reqs, s \in Revoked :
        LET r == reqs[slot]
        IN  /\ Refreshed(r)
            /\ s \notin DOMAIN sessions
            /\ s \in r.preRevoked
            /\ sessionLog[s].userId = r.user.id
            /\ r.user.sessionId # s
            /\ r.ref.sessionId = r.user.sessionId
            /\ WritesBoth(r, "set")


(* ------------------------------------------------------------------ *)
(* Email verification                                                   *)
(* ------------------------------------------------------------------ *)
\* the numbers generateRandomToken draws: crypto.randomInt gives any
\* 8-digit number, and may give the same one twice
TokenCodes == {"11111111", "22222222"}

\* generateRandomToken answers with an 8-digit string
generateRandomToken(code) == code \in TokenCodes

\* the query strings of GET /verify-email-token
VerifyQueries ==
    [token : TokenCodes \cup {"123"},
     email : {SeedUsers[1].email, SeedUsers[2].email, "not-an-email"}]

\* verifyEmailSchema.safeParse: whether the query passes
verifyEmailSchema(query) ==
    /\ Len(query.token) = 8
    /\ query.email # "not-an-email"

\* the users table after both seed users registered: isEmailValid has its
\* default
SeedMembers ==
    [u \in DOMAIN SeedUsers |->
        [name |-> SeedUsers[u].name, email |-> SeedUsers[u].email,
         password |-> SeedUsers[u].password, isEmailValid |-> FALSE]]

\* findVerificationEmailToken, first query: the rows with the token that
\* have not expired, in id order.  The email of the query is not part of
\* the WHERE clause.
tokenData(token) ==
    LET Hit(row) == row.token = token /\ row.expiresAt >= now
    IN  SelectSeq(Committed(verifyEmailTokens), Hit)

\* findVerificationEmailToken, up to the second query: the user id of
\* tokenData[0], or NoId
findVerificationEmailToken(query) ==
    IF tokenData(query.token) = <<>> THEN NoId
    ELSE tokenData(query.token)[1].userId

\* UPDATE users SET is_email_valid = true WHERE email = email
findVerificationEmailAndUpdate(email) ==
    [u \in DOMAIN users |->
        IF users[u].email = email
        THEN [users[u] EXCEPT !.isEmailValid = TRUE]
        ELSE users[u]]

\* the cookies a browser sends: none before a login, and else the pair
\* that the login or the latest refresh of its session has set
CookieJars ==
    {<<NoCookie, NoCookie>>} \cup
    {jar \in issued \X issued :
        /\ jar[1].id # NoId
        /\ jar[2].id = NoId
        /\ jar[1].sessionId = jar[2].sessionId
        /\ jar[1].iat = jar[2].iat}

\* a request arrives, no more than MaxVerifyRequests of them
ReceiveVerify(slot, acc, ref) ==
    LET r0 == [IdleReq EXCEPT !.acc = acc, !.ref = ref, !.start = now,
                              !.preRevoked = Revoked]
    IN  /\ ~InFlight(reqs[slot])
        /\ received < MaxVerifyRequests
        /\ received' = received + 1
        /\ reqs' = [reqs EXCEPT ![slot] = MiddlewareBegin(r0)]
        /\ UNCHANGED <<others, nextUserId, users, sessions, nextSessionId,
                       now, advances, issued, sessionLog>>

\* how the rejection of getVerifyEmailPage ends: as in
\* UnhandledOutcomes, or, where nothing handles the rejection and the
\* runtime ends the process on it (Node 15 and later, as it is set up by
\* default), with the exit of the process
VerifyPageOutcomes == UnhandledOutcomes \cup {"exit"}

\* a request that was being processed when the process ended: it gets no
\* answer
Dropped(r) ==
    [Finish(r, r.route, "exit", NoStr, NoStr) EXCEPT !.fault = r.fault]

\* getVerifyEmailPage: req.user.isEmailValid is read for the log line
\* before req.user is tested, which throws when req.user is null.  When
\* the process exits on the rejection, the clearVerifyEmailTokens calls
\* under way end with it, the requests in flight get no answer and the
\* server rolls back their transactions; the process that is started in
\* its place serves the requests that come after.
GetVerifyEmailPage(slot, outcome) ==
    LET r == reqs[slot]
        u == findUserById(r.user.id)
        exits == r.user.kind = "null" /\ outcome = "exit"
    IN  /\ r.pc = "handler"
        /\ r.user.kind # "null" => outcome \in UnhandledOutcomes
        /\ reqs' = [s \in DOMAIN reqs |->
              IF s = slot
              THEN IF r.user.kind = "null"
                   THEN Finish(r, "verify-email", outcome, NoStr, NoStr)
                   ELSE IF u = NoId
                        THEN Finish(r, "verify-email", "redirect", "/login",
                                    NoStr)
                   ELSE IF users[u].isEmailValid
                        THEN Finish(r, "verify-email", "redirect", "/", NoStr)
                   ELSE Finish(r, "verify-email", "render", NoStr, NoStr)
              ELSE IF exits /\ InFlight(reqs[s]) THEN Dropped(reqs[s])
              ELSE reqs[s]]
        /\ pendingClears' = IF exits THEN EmptyBag ELSE pendingClears
        /\ verifyEmailTokens' = IF exits THEN rollbackAll(verifyEmailTokens)
                                ELSE verifyEmailTokens
        /\ UNCHANGED <<isolation, driverErrors, oauthAccounts, shortLinks,
                       nextLinkId, usedTokens, nextUserId, users, sessions,
                       nextSessionId, now, advances, received, issued,
                       sessionLog>>

\* resendVerificationLink up to its call of sendNewVerifyEmailLink, whose
\* first step draws the token (generateRandomToken)
ResendVerificationLink(slot, code) ==
    LET r == reqs[slot]
        u == findUserById(r.user.id)
    IN  /\ r.pc = "handler"
        /\ generateRandomToken(code)
        /\ reqs' = [reqs EXCEPT ![slot] =
              IF r.user.kind = "null" \/ u = NoId
              THEN Finish(r, "resend", "redirect", "/", NoStr)
              ELSE IF users[u].isEmailValid
                   THEN Finish(r, "resend", "redirect", "/", NoStr)
              ELSE [r EXCEPT !.pc = "deleteExpired", !.route = "resend",
                             !.found = u,
                             !.form = [token |-> code,
                                       email |-> r.user.email]]]
        /\ UNCHANGED <<others, nextUserId, users, sessions, nextSessionId,
                       now, advances, received, issued, sessionLog>>

\* the statements of insertVerifyEmailToken, inside
\* sendNewVerifyEmailLink.  Each is awaited on its own, so the statements
\* of other requests run between them; a statement that has to wait for
\* a lock runs when the lock is free.
\* statement 1, the DELETE of the expired rows
DeleteExpiredTokens(slot) ==
    LET r == reqs[slot]
    IN  /\ r.pc = "deleteExpired"
        /\ CanDeleteExpired(slot)
        /\ verifyEmailTokens' = deleteExpiredTokens(verifyEmailTokens, slot)
        /\ reqs' = [reqs EXCEPT ![slot] =
              [r EXCEPT !.pc = "deleteTokensOfUser",
                        !.nextKeyLocks = (isolation = "REPEATABLE-READ")]]
        /\ UNCHANGED <<isolation, driverErrors, nextUserId, pendingClears,
                       oauthAccounts, shortLinks, nextLinkId, usedTokens,
                       users, sessions, nextSessionId, now, advances,
                       received, issued, sessionLog>>

\* statement 2, the DELETE of the rows of the user
DeleteTokensOfUser(slot) ==
    LET r == reqs[slot]
    IN  /\ r.pc = "deleteTokensOfUser"
        /\ CanDeleteTokensOfUser(r.found, slot)
        /\ verifyEmailTokens' =
              deleteTokensOfUser(verifyEmailTokens, r.found, slot)
        /\ reqs' = [reqs EXCEPT ![slot] = [r EXCEPT !.pc = "insertToken"]]
        /\ UNCHANGED <<isolation, driverErrors, nextUserId, pendingClears,
                       oauthAccounts, shortLinks, nextLinkId, usedTokens,
                       users, sessions, nextSessionId, now, advances,
                       received, issued, sessionLog>>

\* statement 3, the INSERT of the new row; user_id references users.id
InsertToken(slot) ==
    LET r == reqs[slot]
    IN  /\ r.pc = "insertToken"
        /\ CanInsertToken(slot)
        /\ r.found \in DOMAIN users
        /\ verifyEmailTokens' =
              insertToken(verifyEmailTokens, r.found, r.form.token, slot)
        /\ reqs' = [reqs EXCEPT ![slot] = [r EXCEPT !.pc = "commit"]]
        /\ UNCHANGED <<isolation, driverErrors, nextUserId, pendingClears,
                       oauthAccounts, shortLinks, nextLinkId, usedTokens,
                       users, sessions, nextSessionId, now, advances,
                       received, issued, sessionLog>>

\* the number of the statement the transaction is at
StatementAt(r) ==
    IF r.pc = "deleteExpired" THEN 1
    ELSE IF r.pc = "deleteTokensOfUser" THEN 2
    ELSE 3

\* a statement throws (a lock wait that times out, a row the foreign key
\* refuses): the server undoes that statement only, the catch inside the
\* transaction callback swallows the error, the statements after it are
\* skipped and the callback returns normally
InsertVerifyEmailTokenFault(slot) ==
    LET r == reqs[slot]
    IN  /\ r.pc \in {"deleteExpired", "deleteTokensOfUser", "insertToken"}
        /\ reqs' = [reqs EXCEPT ![slot] =
              [r EXCEPT !.pc = "commit", !.fault = "insertVerifyEmailToken",
                        !.reads = StatementAt(r)]]
        /\ UNCHANGED <<others, nextUserId, users, sessions, nextSessionId,
                       now, advances, received, issued, sessionLog>>

\* two transactions hold the lock of the gap and each waits for the other
\* to insert: the server ends the deadlock by rolling one of them back,
\* whose INSERT throws ER_LOCK_DEADLOCK into the same catch
LockDeadlock(slot) ==
    LET r == reqs[slot]
    IN  /\ r.pc = "insertToken"
        /\ r.nextKeyLocks
        /\ \E t \in DOMAIN reqs :
              /\ t # slot
              /\ reqs[t].pc = "insertToken"
              /\ reqs[t].nextKeyLocks
        /\ verifyEmailTokens' = rollback(verifyEmailTokens, slot)
        /\ reqs' = [reqs EXCEPT ![slot] =
              [r EXCEPT !.pc = "commit", !.fault = "ER_LOCK_DEADLOCK",
                        !.reads = StatementAt(r), !.nextKeyLocks = FALSE]]
        /\ UNCHANGED <<isolation, driverErrors, nextUserId, pendingClears,
                       oauthAccounts, shortLinks, nextLinkId, usedTokens,
                       users, sessions, nextSessionId, now, advances,
                       received, issued, sessionLog>>

\* the callback has returned and drizzle commits: what the statements
\* that ran have done becomes the state of the table, and the locks of the
\* transaction are released.  When the COMMIT throws, the transaction is
\* rolled back and db.transaction rejects, past the try/catch inside the
\* callback: sendNewVerifyEmailLink rejects and the catch of
\* resendVerificationLink answers.
InsertVerifyEmailToken(slot, outcome) ==
    LET r == reqs[slot]
    IN  /\ r.pc = "commit"
        /\ IF outcome = "throws"
           THEN /\ verifyEmailTokens' = rollback(verifyEmailTokens, slot)
                /\ reqs' = [reqs EXCEPT ![slot] =
                      [Finish(r, "resend", "redirect", "/verify-email",
                              "Failed to send verification email. Please try again later.")
                         EXCEPT !.found = r.found, !.fault = "commit",
                                !.reads = r.reads]]
           ELSE /\ verifyEmailTokens' = commit(verifyEmailTokens, slot)
                /\ reqs' = [reqs EXCEPT ![slot] =
                      [r EXCEPT !.pc = "sendEmail", !.nextKeyLocks = FALSE]]
        /\ UNCHANGED <<isolation, driverErrors, nextUserId, pendingClears,
                       oauthAccounts, shortLinks, nextLinkId, usedTokens,
                       users, sessions, nextSessionId, now, advances,
                       received, issued, sessionLog>>

\* the end of sendNewVerifyEmailLink (createVerifyEmailLink and
\* sendEmail) and the rest of resendVerificationLink: the mail leaves, or
\* sendEmail throws and the catch of the handler flashes the error; both
\* ways the answer is the redirect to /verify-email
SendEmail(slot, sent) ==
    LET r == reqs[slot]
    IN  /\ r.pc = "sendEmail"
        /\ reqs' = [reqs EXCEPT ![slot] =
              [(IF sent
                THEN Finish(r, "resend", "redirect", "/verify-email",
                            "Verification link sent to your email. Please check your inbox.")
                ELSE Finish(r, "resend", "redirect", "/verify-email",
                            "Failed to send verification email. Please try again later."))
                 EXCEPT !.found = r.found, !.fault = r.fault,
                        !.reads = r.reads]]
        /\ UNCHANGED <<others, nextUserId, users, sessions, nextSessionId,
                       now, advances, received, issued, sessionLog>>

\* verifyEmailToken up to the answer of the first query of
\* findVerificationEmailToken
VerifyEmailToken(slot, query) ==
    LET r == [reqs[slot] EXCEPT !.form = query]
        owner == findVerificationEmailToken(query)
    IN  /\ reqs[slot].pc = "handler"
        /\ reqs' = [reqs EXCEPT ![slot] =
              IF ~verifyEmailSchema(query)
              THEN Finish(r, "verify-email-token", "redirect",
                          "/verify-email",
                          "Verification link invalid or expired. Please request a new code.")
              ELSE IF owner = NoId
                   THEN Finish(r, "verify-email-token", "redirect",
                               "/verify-email",
                               "Verification code is invalid or expired. Please request a new code.")
              ELSE [r EXCEPT !.pc = "verifyUser",
                             !.route = "verify-email-token",
                             !.found = owner]]
        /\ UNCHANGED <<others, nextUserId, users, sessions, nextSessionId,
                       now, advances, received, issued, sessionLog>>

\* the second query of findVerificationEmailToken answers: the owner of
\* the token row, whose email the rest of the handler uses
VerifyEmailUser(slot) ==
    LET r == reqs[slot]
        u == findUserById(r.found)
    IN  /\ r.pc = "verifyUser"
        /\ reqs' = [reqs EXCEPT ![slot] =
              IF u = NoId
              THEN Finish(r, "verify-email-token", "redirect",
                          "/verify-email",
                          "Verification code is invalid or expired. Please request a new code.")
              ELSE [r EXCEPT !.pc = "verifyUpdate",
                             !.sess = [NoSession EXCEPT !.userId = u],
                             !.form = [token |-> r.form.token,
                                       email |-> r.form.email,
                                       tokenEmail |-> users[u].email]]]
        /\ UNCHANGED <<others, nextUserId, users, sessions, nextSessionId,
                       now, advances, received, issued, sessionLog>>

\* findVerificationEmailAndUpdate answers, whether or not a row has the
\* email still; clearVerifyEmailTokens is called and not awaited, one
\* call for each request, and the response leaves
VerifyEmailUpdate(slot) ==
    LET r == reqs[slot]
        email == r.form.tokenEmail
    IN  /\ r.pc = "verifyUpdate"
        /\ users' = findVerificationEmailAndUpdate(email)
        /\ pendingClears' = pendingClears (+)
              SetToBag({[email |-> email, userId |-> NoId]})
        /\ usedTokens' = usedTokens \cup
              {[userId |-> r.sess.userId, token |-> r.form.token]}
        /\ reqs' = [reqs EXCEPT ![slot] =
              [Finish(r, "verify-email-token", "redirect", "/profile",
                      "Email verified successfully.")
                 EXCEPT !.found = r.found]]
        /\ UNCHANGED <<isolation, driverErrors,
                       nextUserId, verifyEmailTokens, oauthAccounts,
                       shortLinks, nextLinkId, sessions, nextSessionId, now,
                       advances, received, issued, sessionLog>>

\* clearVerifyEmailTokens: the SELECT of the user by email answers, for
\* one of the calls that wait for it.  When it throws, and when it
\* answers with no row so that user.id throws, the call rejects and the
\* .catch of the caller logs the error.
ClearSelectUser(task, select) ==
    LET u == getUserByEmail(task.email)
    IN  /\ BagIn(task, pendingClears)
        /\ task.userId = NoId
        /\ pendingClears' =
              IF select = "throws" \/ u = NoId
              THEN pendingClears (-) SetToBag({task})
              ELSE (pendingClears (-) SetToBag({task}))
                      (+) SetToBag({[task EXCEPT !.userId = u]})
        /\ UNCHANGED <<isolation, driverErrors,
                       nextUserId, verifyEmailTokens, oauthAccounts,
                       shortLinks, nextLinkId, usedTokens, users, sessions,
                       nextSessionId, now, advances, received, issued,
                       sessionLog, reqs>>

\* clearVerifyEmailTokens: DELETE FROM is_email_valid WHERE user_id, a
\* statement on its own, which waits for the locks on the rows it reads.
\* When it throws, the call rejects, the .catch of the caller logs the
\* error and the rows stay.
ClearVerifyEmailTokens(task, delete) ==
    /\ BagIn(task, pendingClears)
    /\ task.userId # NoId
    /\ IF delete = "throws"
       THEN verifyEmailTokens' = verifyEmailTokens
       ELSE /\ CanDeleteTokensOfUser(task.userId, Autocommit)
            /\ verifyEmailTokens' =
                  commit(deleteTokensOfUser(verifyEmailTokens, task.userId,
                                            Autocommit),
                         Autocommit)
    /\ pendingClears' = pendingClears (-) SetToBag({task})
    /\ UNCHANGED <<isolation, driverErrors,
                   nextUserId, oauthAccounts, shortLinks, nextLinkId,
                   usedTokens, users, sessions, nextSessionId, now, advances,
                   received, issued, sessionLog, reqs>>

\* the clean-up tasks there can be
ClearTasks ==
    [email : {SeedUsers[u].email : u \in DOMAIN SeedUsers},
     userId : DOMAIN SeedUsers \cup {NoId}]

\* the server after Ada and Bob registered and logged in at time 0, and
\* Ada asked for a verification link; it serves one request at a time
InitVerify ==
    /\ users = SeedMembers
    /\ nextUserId = Cardinality(DOMAIN SeedUsers) + 1
    /\ sessions = [s \in {1, 2} |-> [userId |-> s, valid |-> TRUE]]
    /\ nextSessionId = 3
    /\ now = 0
    /\ advances = 0
    /\ received = 0
    /\ issued =
          {createAccessToken(u, SeedUsers[u].name, SeedUsers[u].email, u, 0) :
              u \in {1, 2}}
          \cup {createRefreshToken(u, 0) : u \in {1, 2}}
    /\ sessionLog = [s \in {1, 2} |-> [userId |-> s, revokedAt |-> NoTime]]
    /\ reqs = [slot \in Slots |-> IdleReq]
    /\ verifyEmailTokens = <<TokenRow(1, "11111111", VerifyTokenLifetime)>>
    /\ pendingClears = EmptyBag
    /\ oauthAccounts = <<>>
    /\ shortLinks = <<>>
    /\ usedTokens = {}
    /\ nextLinkId = 1
    /\ isolation \in IsolationLevels
    /\ driverErrors = "raw"

NextVerify ==
    \/ \E slot \in Slots, jar \in CookieJars :
          ReceiveVerify(slot, jar[1], jar[2])
    \/ \E slot \in Slots : RefreshUser(slot)
    \/ \E slot \in Slots, outcome \in VerifyPageOutcomes :
          GetVerifyEmailPage(slot, outcome)
    \/ \E slot \in Slots, code \in TokenCodes :
          ResendVerificationLink(slot, code)
    \/ \E slot \in Slots : DeleteExpiredTokens(slot)
    \/ \E slot \in Slots : DeleteTokensOfUser(slot)
    \/ \E slot \in Slots : InsertToken(slot)
    \/ \E slot \in Slots : InsertVerifyEmailTokenFault(slot)
    \/ \E slot \in Slots, outcome \in StatementOutcomes :
          InsertVerifyEmailToken(slot, outcome)
    \/ \E slot \in Slots, sent \in BOOLEAN : SendEmail(slot, sent)
    \/ \E slot \in Slots, query \in VerifyQueries :
          VerifyEmailToken(slot, query)
    \/ \E slot \in Slots : VerifyEmailUser(slot)
    \/ \E slot \in Slots : VerifyEmailUpdate(slot)
    \/ \E task \in ClearTasks, select \in StatementOutcomes :
          ClearSelectUser(task, select)
    \/ \E task \in ClearTasks, delete \in StatementOutcomes :
          ClearVerifyEmailTokens(task, delete)
    \/ \E userId \in DOMAIN users : DeleteUser(userId)
    \/ \E d \in DaySteps : AdvanceDays(d)

SpecVerify == InitVerify /\ [][NextVerify]_vars

(* ------------------------------------------------------------------ *)
(* Two clients asking for verification links                            *)
(* ------------------------------------------------------------------ *)
\* the server of InitVerify, serving two requests at a time; its token
\* table holds the row of Ada, or no row
InitResend ==
    /\ users = SeedMembers
    /\ nextUserId = Cardinality(DOMAIN SeedUsers) + 1
    /\ sessions = [s \in {1, 2} |-> [userId |-> s, valid |-> TRUE]]
    /\ nextSessionId = 3
    /\ now = 0
    /\ advances = 0
    /\ received = 0
    /\ issued =
          {createAccessToken(u, SeedUsers[u].name, SeedUsers[u].email, u, 0) :
              u \in {1, 2}}
          \cup {createRefreshToken(u, 0) : u \in {1, 2}}
    /\ sessionLog = [s \in {1, 2} |-> [userId |-> s, revokedAt |-> NoTime]]
    /\ reqs = [slot \in Clients |-> IdleReq]
    /\ verifyEmailTokens \in
          {<<>>, <<TokenRow(1, "11111111", VerifyTokenLifetime)>>}
    /\ pendingClears = EmptyBag
    /\ oauthAccounts = <<>>
    /\ shortLinks = <<>>
    /\ usedTokens = {}
    /\ nextLinkId = 1
    /\ isolation \in IsolationLevels
    /\ driverErrors = "raw"

\* a request arrives, no more than MaxResendRequests of them
ReceiveResend(slot, acc, ref) ==
    LET r0 == [IdleReq EXCEPT !.acc = acc, !.ref = ref, !.start = now,
                              !.preRevoked = Revoked]
    IN  /\ ~InFlight(reqs[slot])
        /\ received < MaxResendRequests
        /\ received' = received + 1
        /\ reqs' = [reqs EXCEPT ![slot] = MiddlewareBegin(r0)]
        /\ UNCHANGED <<others, nextUserId, users, sessions, nextSessionId,
                       now, advances, issued, sessionLog>>

NextResend ==
    \/ \E slot \in Clients, jar \in CookieJars :
          ReceiveResend(slot, jar[1], jar[2])
    \/ \E slot \in Clients : RefreshUser(slot)
    \/ \E slot \in Clients, code \in TokenCodes :
          ResendVerificationLink(slot, code)
    \/ \E slot \in Clients : DeleteExpiredTokens(slot)
    \/ \E slot \in Clients : DeleteTokensOfUser(slot)
    \/ \E slot \in Clients : InsertToken(slot)
    \/ \E slot \in Clients : InsertVerifyEmailTokenFault(slot)
    \/ \E slot \in Clients, outcome \in StatementOutcomes :
          InsertVerifyEmailToken(slot, outcome)
    \/ \E slot \in Clients : LockDeadlock(slot)
    \/ \E slot \in Clients, sent \in BOOLEAN : SendEmail(slot, sent)
    \/ \E d \in DaySteps : AdvanceDays(d)

SpecResend == InitResend /\ [][NextResend]_vars

(* ------------------------------------------------------------------ *)
(* The verification runs with the scheduling of the event loop          *)
(* ------------------------------------------------------------------ *)
\* a step of a request that is being processed
VerifyRequestStep ==
    \/ \E slot \in Slots : RefreshUser(slot)
    \/ \E slot \in Slots, outcome \in VerifyPageOutcomes :
          GetVerifyEmailPage(slot, outcome)
    \/ \E slot \in Slots, code \in TokenCodes :
          ResendVerificationLink(slot, code)
    \/ \E slot \in Slots : DeleteExpiredTokens(slot)
    \/ \E slot \in Slots : DeleteTokensOfUser(slot)
    \/ \E slot \in Slots : InsertToken(slot)
    \/ \E slot \in Slots, outcome \in StatementOutcomes :
          InsertVerifyEmailToken(slot, outcome)
    \/ \E slot \in Slots, sent \in BOOLEAN : SendEmail(slot, sent)
    \/ \E slot \in Slots, query \in VerifyQueries :
          VerifyEmailToken(slot, query)
    \/ \E slot \in Slots : VerifyEmailUser(slot)
    \/ \E slot \in Slots : VerifyEmailUpdate(slot)

\* a step of a clearVerifyEmailTokens call
VerifyClearStep ==
    \/ \E task \in ClearTasks, select \in StatementOutcomes :
          ClearSelectUser(task, select)
    \/ \E task \in ClearTasks, delete \in StatementOutcomes :
          ClearVerifyEmailTokens(task, delete)

\* the event loop runs every continuation whose statement has ended, with
\* the answer or with the error of the statement
SpecVerifyFair ==
    /\ InitVerify
    /\ [][NextVerify]_vars
    /\ WF_vars(VerifyRequestStep)
    /\ WF_vars(VerifyClearStep)

(* ------------------------------------------------------------------ *)
(* C22                                                                  *)
(* ------------------------------------------------------------------ *)
\* the rows of the token table that have been committed
CommittedTokens == Committed(verifyEmailTokens)

\* the user has an unexpired row with the token
HoldsToken(u, token) ==
    \E i \in DOMAIN CommittedTokens :
        /\ CommittedTokens[i].userId = u
        /\ CommittedTokens[i].token = token
        /\ CommittedTokens[i].expiresAt >= now

\* the step sets isEmailValid of the user
BecomesVerified(u) ==
    /\ u \in DOMAIN users
    /\ u \in DOMAIN users'
    /\ ~users[u].isEmailValid
    /\ users'[u].isEmailValid

\* C22: verifyEmailToken sets a user's isEmailValid to true only if the
\* token of the request exists, has not expired and belongs to that user,
\* and the email of the request is the email of that user.
C22_VerificationNeedsMatchingEmail ==
    [][\A u \in DOMAIN users :
          BecomesVerified(u) =>
             \E slot \in DOMAIN reqs :
                /\ reqs[slot].pc = "verifyUpdate"
                /\ HoldsToken(u, reqs[slot].form.token)
                /\ reqs[slot].form.email = users[u].email]_vars

(* ------------------------------------------------------------------ *)
(* C23                                                                  *)
(* ------------------------------------------------------------------ *)
\* the rows of the user that have not expired
ActiveTokens(u) ==
    {i \in DOMAIN CommittedTokens :
        /\ CommittedTokens[i].userId = u
        /\ CommittedTokens[i].expiresAt >= now}

\* C23: whatever insertVerifyEmailToken calls have run, one after the
\* other or two at a time for the same user, the token table holds at
\* most one unexpired row per user.
C23_OneActiveTokenPerUser ==
    \A u \in DOMAIN users : Cardinality(ActiveTokens(u)) <= 1

\* the same on a server that runs its transactions at REPEATABLE READ
OneActiveTokenAtRepeatableRead ==
    isolation = "REPEATABLE-READ" => C23_OneActiveTokenPerUser

\* two transactions for the same user were open together at REPEATABLE
\* READ, one was rolled back as the victim of the deadlock and the other
\* has committed its row
DeadlockResolved ==
    /\ isolation = "REPEATABLE-READ"
    /\ \E a \in DOMAIN reqs, b \in DOMAIN reqs :
          /\ reqs[a].fault = "ER_LOCK_DEADLOCK"
          /\ reqs[b].pc \in {"sendEmail", "done"}
          /\ reqs[b].route = "resend"
          /\ reqs[b].fault = "none"
          /\ reqs[a].found = reqs[b].found
          /\ Cardinality(ActiveTokens(reqs[b].found)) = 1

(* ------------------------------------------------------------------ *)
(* C24                                                                  *)
(* ------------------------------------------------------------------ *)
\* the call of insertVerifyEmailToken by the request in the slot, in which
\* a statement failed, returns
InsertFails(slot) ==
    /\ reqs[slot].pc = "commit"
    /\ reqs[slot].fault \in {"insertVerifyEmailToken", "ER_LOCK_DEADLOCK"}
    /\ reqs'[slot].pc = "sendEmail"

\* C24: when one of the three statements of insertVerifyEmailToken fails,
\* the transaction is rolled back: nothing the call did is in the token
\* table, whose committed rows are the same before and after the end of
\* the call.
C24_FailedInsertLeavesTableAlone ==
    [][\A slot \in DOMAIN reqs :
          InsertFails(slot) =>
              Committed(verifyEmailTokens') = CommittedTokens]_vars

(* ------------------------------------------------------------------ *)
(* C25                                                                  *)
(* ------------------------------------------------------------------ *)
\* verifyEmailToken has just answered that the email of the user is
\* verified
VerifiedNow(u) ==
    \E slot \in DOMAIN reqs :
        /\ reqs[slot].pc = "done"
        /\ reqs[slot].route = "verify-email-token"
        /\ reqs[slot].location = "/profile"
        /\ reqs[slot].found = u

\* the token table has no row of the user
TokensGone(u) ==
    \A i \in DOMAIN CommittedTokens : CommittedTokens[i].userId # u

\* the request handled in the slot presents a token that verified a user
\* whose tokens have been removed since, with the email of that user
ReplaysUsedToken(slot) ==
    /\ reqs[slot].pc = "handler"
    /\ reqs'[slot].route = "verify-email-token"
    /\ \E used \in usedTokens :
          /\ used.userId \in DOMAIN users
          /\ used.token = reqs'[slot].form.token
          /\ users[used.userId].email = reqs'[slot].form.email
          /\ TokensGone(used.userId)
          /\ \A task \in BagToSet(pendingClears) :
                task.email # users[used.userId].email

\* the answer of verifyEmailToken to a token it does not accept
RejectedAsInvalid(r) ==
    /\ r.pc = "done"
    /\ r.status = "redirect"
    /\ r.location = "/verify-email"
    /\ r.flash \in
          {"Verification link invalid or expired. Please request a new code.",
           "Verification code is invalid or expired. Please request a new code."}

\* no clearVerifyEmailTokens call for the user is under way
CleanUpEnded(u) ==
    \A task \in BagToSet(pendingClears) : task.email # SeedUsers[u].email

\* the clean-up a verification starts comes to its end, with or without
\* the rows of the user removed
CleanUpEnds ==
    \A u \in DOMAIN SeedUsers : VerifiedNow(u) ~> CleanUpEnded(u)

\* the tokens of a verified user get removed
TokensEventuallyRemoved ==
    \A u \in DOMAIN SeedUsers : VerifiedNow(u) ~> TokensGone(u)

\* C25: once verifyEmailToken has succeeded for a user, all the tokens of
\* that user are eventually removed from the token table, and from then
\* on a request that presents the used token again is rejected as invalid
\* or expired.
C25_UsedTokensAreDeleted ==
    /\ TokensEventuallyRemoved
    /\ [][\A slot \in DOMAIN reqs :
             ReplaysUsedToken(slot) => RejectedAsInvalid(reqs'[slot])]_vars

(* ------------------------------------------------------------------ *)
(* C26                                                                  *)
(* ------------------------------------------------------------------ *)
\* getVerifyEmailPage answers the request in the slot
VerifyPageStep(slot) ==
    /\ reqs[slot].pc = "handler"
    /\ reqs'[slot].pc = "done"
    /\ reqs'[slot].route = "verify-email"

\* res.redirect(location)
RedirectedTo(r, location) ==
    r.status = "redirect" /\ r.location = location

\* C26: GET /verify-email of an anonymous requester is redirected to
\* /login and GET /verify-email of a user whose email is verified is
\* redirected to /; neither request fails with an error.
C26_VerifyPageOnlyForUnverifiedUsers ==
    [][\A slot \in DOMAIN reqs :
          VerifyPageStep(slot) =>
             /\ reqs[slot].user.kind = "null" =>
                   RedirectedTo(reqs'[slot], "/login")
             /\ (/\ reqs[slot].user.kind # "null"
                 /\ reqs[slot].user.id \in DOMAIN users
                 /\ users[reqs[slot].user.id].isEmailValid) =>
                   RedirectedTo(reqs'[slot], "/")]_vars

(* ------------------------------------------------------------------ *)
(* Login with Google                                                    *)
(* ------------------------------------------------------------------ *)
\* maxAge of the two cookies of the OAuth exchange, in milliseconds
OAUTH_EXCHANGE_EXPIRY == 10 * SECONDS_PER_MINUTE * MILLISECONDS_PER_SECOND

\* the values generateState and generateCodeVerifier hand out
OauthStates == {"state-1", "state-2"}

OauthVerifiers == {"verifier-1"}

\* what a client can send to /google/callback: the code and state query
\* parameters and the google_oauth_state and google_code_verifier cookies,
\* each of them absent, empty or set
OauthInputs ==
    [code : {NoStr, "code-1"},
     state : {NoStr, ""} \cup OauthStates,
     storedState : {NoStr, ""} \cup OauthStates,
     codeVerifier : {NoStr} \cup OauthVerifiers]

\* the claims of the id tokens Google hands out: a Google account with
\* the email of a user of this server, and one with an email no user has
GoogleAccounts ==
    {[sub |-> "google-ada", name |-> SeedUsers[1].name,
      email |-> SeedUsers[1].email],
     [sub |-> "google-cy", name |-> "Cy", email |-> "cy@example.com"]}

\* no id token: google.validateAuthorizationCode has thrown
NoAccount == [sub |-> NoStr, name |-> NoStr, email |-> NoStr]

\* what google.validateAuthorizationCode does: it throws, or it answers
\* with the id token of a Google account
ExchangeOutcomes == {NoAccount} \cup GoogleAccounts

\* truthiness of a query parameter or of a cookie
Truthy(value) == value \notin {NoStr, ""}

\* the test of getGoogleLoginCallback without the comparison of the two
\* states
InvalidLoginAttempt_noStateCheck(in) ==
    \/ ~Truthy(in.code)
    \/ ~Truthy(in.state)
    \/ ~Truthy(in.storedState)
    \/ ~Truthy(in.codeVerifier)

\* the test getGoogleLoginCallback starts with
InvalidLoginAttempt(in) ==
    \/ ~Truthy(in.code)
    \/ ~Truthy(in.state)
    \/ ~Truthy(in.storedState)
    \/ ~Truthy(in.codeVerifier)
    \/ in.state # in.storedState

\* the request of a callback: what the client sent, and what the exchange
\* answered
OauthForm(in) ==
    [code |-> in.code, state |-> in.state, storedState |-> in.storedState,
     codeVerifier |-> in.codeVerifier, exchanged |-> "none",
     sub |-> NoStr, name |-> NoStr, email |-> NoStr]

\* getUserWithOauthId: the user with the email
getUserWithOauthId(email) == getUserByEmail(email)

\* getUserWithOauthId: user.providerAccountId is set
HasProviderAccount(u) ==
    \E i \in DOMAIN oauthAccounts :
        oauthAccounts[i].userId = u /\ oauthAccounts[i].provider = "google"

\* linkUserWithOauth: INSERT INTO oauth_accounts
linkUserWithOauth(userId, providerAccountId) ==
    Append(oauthAccounts,
           [userId |-> userId, provider |-> "google",
            providerAccountId |-> providerAccountId])

\* a request arrives, no more than MaxOauthRequests of them
ReceiveOauth(slot, acc, ref) ==
    LET r0 == [IdleReq EXCEPT !.acc = acc, !.ref = ref, !.start = now,
                              !.preRevoked = Revoked]
    IN  /\ ~InFlight(reqs[slot])
        /\ received < MaxOauthRequests
        /\ received' = received + 1
        /\ reqs' = [reqs EXCEPT ![slot] = MiddlewareBegin(r0)]
        /\ UNCHANGED <<others, nextUserId, users, sessions, nextSessionId,
                       now, advances, issued, sessionLog>>

\* getGoogleLoginPage
GetGoogleLoginPage(slot, state, codeVerifier) ==
    LET r == reqs[slot]
    IN  /\ r.pc = "handler"
        /\ reqs' = [reqs EXCEPT ![slot] =
              IF r.user.kind # "null"
              THEN Finish(r, "google", "redirect", "/", NoStr)
              ELSE Finish([r EXCEPT !.cookies = @ \o
                              <<SetCookie("google_oauth_state", state,
                                          OAUTH_EXCHANGE_EXPIRY),
                                SetCookie("google_code_verifier", codeVerifier,
                                          OAUTH_EXCHANGE_EXPIRY)>>],
                          "google", "redirect", "accounts.google.com", NoStr)]
        /\ UNCHANGED <<others, nextUserId, users, sessions, nextSessionId,
                       now, advances, received, issued, sessionLog>>

\* getGoogleLoginCallback up to google.validateAuthorizationCode
GetGoogleLoginCallback(slot, in) ==
    LET r == [reqs[slot] EXCEPT !.form = OauthForm(in)]
    IN  /\ reqs[slot].pc = "handler"
        /\ reqs' = [reqs EXCEPT ![slot] =
              IF InvalidLoginAttempt(in)
              THEN Finish(r, "google-callback", "redirect", "/login",
                          "Couldn't login with Google because of invalid login attempt. Please try again!")
              ELSE [r EXCEPT !.pc = "oauthExchange",
                             !.route = "google-callback"]]
        /\ UNCHANGED <<others, nextUserId, users, sessions, nextSessionId,
                       now, advances, received, issued, sessionLog>>

\* google.validateAuthorizationCode answers or throws; decodeIdToken
ValidateAuthorizationCode(slot, outcome) ==
    LET r == reqs[slot]
    IN  /\ r.pc = "oauthExchange"
        /\ reqs' = [reqs EXCEPT ![slot] =
              IF outcome = NoAccount
              THEN Finish([r EXCEPT !.form.exchanged = "failed"],
                          "google-callback", "redirect", "/login",
                          "Couldn't login with Google because of invalid login attempt. Please try again!")
              ELSE [r EXCEPT !.pc = "oauthUser",
                             !.form.exchanged = "ok",
                             !.form.sub = outcome.sub,
                             !.form.name = outcome.name,
                             !.form.email = outcome.email]]
        /\ UNCHANGED <<others, nextUserId, users, sessions, nextSessionId,
                       now, advances, received, issued, sessionLog>>

\* getUserWithOauthId answers: the user is linked already, is to be
\* linked, or is to be created
GetUserWithOauthId(slot) ==
    LET r == reqs[slot]
        u == getUserWithOauthId(r.form.email)
    IN  /\ r.pc = "oauthUser"
        /\ reqs' = [reqs EXCEPT ![slot] =
              IF u = NoId THEN [r EXCEPT !.pc = "oauthCreate"]
              ELSE IF ~HasProviderAccount(u)
                   THEN [r EXCEPT !.pc = "oauthLink", !.found = u]
              ELSE [r EXCEPT !.pc = "oauthSession", !.found = u]]
        /\ UNCHANGED <<others, nextUserId, users, sessions, nextSessionId,
                       now, advances, received, issued, sessionLog>>

\* linkUserWithOauth
LinkUserWithOauth(slot) ==
    LET r == reqs[slot]
    IN  /\ r.pc = "oauthLink"
        /\ oauthAccounts' = linkUserWithOauth(r.found, r.form.sub)
        /\ reqs' = [reqs EXCEPT ![slot] = [r EXCEPT !.pc = "oauthSession"]]
        /\ UNCHANGED <<isolation, driverErrors,
                       nextUserId, verifyEmailTokens, pendingClears,
                       shortLinks, nextLinkId, usedTokens, users, sessions,
                       nextSessionId, now, advances, received, issued,
                       sessionLog>>

\* createUserWithOauth: the user row and the row of its Google account
CreateUserWithOauth(slot) ==
    LET r == reqs[slot]
        u == NewUserId
    IN  /\ r.pc = "oauthCreate"
        /\ ~EmailTaken(r.form.email)
        /\ users' = createUser(u, r.form.name, r.form.email, NoStr)
        /\ oauthAccounts' = linkUserWithOauth(u, r.form.sub)
        /\ reqs' = [reqs EXCEPT ![slot] =
              [r EXCEPT !.pc = "oauthSession", !.found = u]]
        /\ nextUserId' = nextUserId + 1
        /\ UNCHANGED <<isolation, driverErrors,
                       verifyEmailTokens, pendingClears, shortLinks,
                       nextLinkId, usedTokens, sessions, nextSessionId, now,
                       advances, received, issued, sessionLog>>

\* authenticateUser, called by getGoogleLoginCallback with the name and
\* the email of the id token, and the redirect to /
OauthAuthenticate(slot) ==
    LET r == reqs[slot]
        u == r.found
        sid == NewSessionId
        accessToken == createAccessToken(u, r.form.name, r.form.email,
                                         sid, now)
        refreshToken == createRefreshToken(sid, now)
    IN  /\ r.pc = "oauthSession"
        /\ sessions' = createSession(u, sid)
        /\ nextSessionId' = nextSessionId + 1
        /\ sessionLog' = sessionLog @@
              (sid :> [userId |-> u, revokedAt |-> NoTime])
        /\ issued' = issued \cup {accessToken, refreshToken}
        /\ reqs' = [reqs EXCEPT ![slot] =
              [Finish([r EXCEPT
                         !.created = {[id |-> sid, userId |-> u,
                                       valid |-> TRUE]},
                         !.cookies = @ \o
                           <<SetCookie("access_token", accessToken,
                                       ACCESS_TOKEN_EXPIRY),
                             SetCookie("refresh_token", refreshToken,
                                       REFRESH_TOKEN_EXPIRY)>>],
                      "google-callback", "redirect", "/", NoStr)
                 EXCEPT !.found = u]]
        /\ UNCHANGED <<others, nextUserId, users, now, advances, received>>

NextOauth ==
    \/ \E slot \in Slots, jar \in CookieJars :
          ReceiveOauth(slot, jar[1], jar[2])
    \/ \E slot \in Slots : RefreshUser(slot)
    \/ \E slot \in Slots, state \in OauthStates,
          codeVerifier \in OauthVerifiers :
          GetGoogleLoginPage(slot, state, codeVerifier)
    \/ \E slot \in Slots, in \in OauthInputs :
          GetGoogleLoginCallback(slot, in)
    \/ \E slot \in Slots, outcome \in ExchangeOutcomes :
          ValidateAuthorizationCode(slot, outcome)
    \/ \E slot \in Slots : GetUserWithOauthId(slot)
    \/ \E slot \in Slots : LinkUserWithOauth(slot)
    \/ \E slot \in Slots : CreateUserWithOauth(slot)
    \/ \E slot \in Slots : OauthAuthenticate(slot)
    \/ \E d \in ClockSteps : Advance(d)

\* the server with its seed users, nobody logged in, one request at a time
SpecOauth == Init /\ [][NextOauth]_vars

(* ------------------------------------------------------------------ *)
(* C28                                                                  *)
(* ------------------------------------------------------------------ *)
\* the request of the callback has all four values, the two states are
\* equal, and the exchange of the code has succeeded
CallbackAccepted(r) ==
    /\ r.form.code \notin {NoStr, ""}
    /\ r.form.state \notin {NoStr, ""}
    /\ r.form.storedState \notin {NoStr, ""}
    /\ r.form.codeVerifier \notin {NoStr, ""}
    /\ r.form.state = r.form.storedState
    /\ r.form.exchanged = "ok"

\* a step of getGoogleLoginCallback for the request in the slot
CallbackStep(slot) ==
    /\ reqs'[slot] # reqs[slot]
    /\ reqs'[slot].route = "google-callback"

\* the step sets one of the two authentication cookies
SetsAuthCookie(slot) ==
    \E i \in 1..Len(reqs'[slot].cookies) :
        /\ i > Len(reqs[slot].cookies)
        /\ reqs'[slot].cookies[i].op = "set"
        /\ reqs'[slot].cookies[i].name \in {"access_token", "refresh_token"}

\* the answer to a callback that is not accepted
CallbackRefused(r) ==
    /\ r.status = "redirect"
    /\ r.location = "/login"
    /\ r.flash # NoStr

\* C28: the Google callback creates a session and sets the authentication
\* cookies only for a request that has the code and state parameters and
\* the state and code-verifier cookies, whose two states are equal and
\* whose code exchange succeeded; any other callback request is redirected
\* to /login with an error message and creates or links no user and no
\* session.
C28_GoogleCallbackNeedsValidExchange ==
    [][\A slot \in DOMAIN reqs :
          (CallbackStep(slot) /\ ~CallbackAccepted(reqs'[slot])) =>
             /\ sessions' = sessions
             /\ users' = users
             /\ oauthAccounts' = oauthAccounts
             /\ ~SetsAuthCookie(slot)
             /\ reqs'[slot].pc = "done" => CallbackRefused(reqs'[slot])]_vars

\* a callback with matching states whose exchange succeeded has created
\* a user for the Google account, and a session for that user
C28_Witness ==
    \E slot \in DOMAIN reqs :
        /\ reqs[slot].pc = "done"
        /\ reqs[slot].route = "google-callback"
        /\ reqs[slot].form.state = reqs[slot].form.storedState
        /\ reqs[slot].form.exchanged = "ok"
        /\ reqs[slot].created # {}
        /\ reqs[slot].location = "/"
        /\ reqs[slot].found \notin DOMAIN SeedUsers
        /\ reqs[slot].found \in DOMAIN users
        /\ \E i \in DOMAIN oauthAccounts :
              oauthAccounts[i].userId = reqs[slot].found

(* ------------------------------------------------------------------ *)
(* Short links                                                          *)
(* ------------------------------------------------------------------ *)
\* the code crypto.randomBytes(4).toString("hex") yields
RandomCodes == {"0a1b2c3d"}

\* the bodies of POST / and of POST /edit/:id: a shortCode of "" asks for
\* a random one
LinkBodies ==
    [url : {"https://a.example", "https://b.example", "not-a-url"},
     shortCode : {"", "abc", "xyz"}]

\* req.params.id
LinkParams == {"1", "2", "x"}

\* z.coerce.number().int().safeParse(req.params.id): the number, or NoId
CoerceId(param) ==
    IF param = "1" THEN 1 ELSE IF param = "2" THEN 2 ELSE NoId

\* shortnerSchema.safeParse: the message of the first issue, or NoStr
shortnerSchema(body) ==
    IF body.url = "not-a-url" THEN "Please enter a valid URL" ELSE NoStr

\* getLinkByShortCode: the id of the row with the short code, or NoId;
\* its catch block turns a SELECT that throws into null
getLinkByShortCode(shortCode, select) ==
    LET hit == {l \in DOMAIN shortLinks : shortLinks[l].shortCode = shortCode}
    IN  IF select = "throws" \/ hit = {} THEN NoId
        ELSE CHOOSE l \in hit : TRUE

\* findShortLinkById: the id of the row, or NoId; its catch block turns a
\* SELECT that throws into null
findShortLinkById(id, select) ==
    IF select = "runs" /\ id \in DOMAIN shortLinks THEN id ELSE NoId

\* the error of a failed statement as the catch block of the service
\* receives it: the error of mysql2 with its code, or, from a drizzle-orm
\* that wraps the errors of the driver, an error whose code is undefined
\* and whose message names the query
DriverError(code, message) ==
    IF driverErrors = "raw"
    THEN [code |-> code, message |-> message]
    ELSE [code |-> NoStr, message |-> "Failed query"]

\* the catch block of saveLinks and of updateShortLinkById: the message of
\* the error it throws on
ServiceError(error) ==
    IF error.code = "ER_DUP_ENTRY" THEN "Short code already exists"
    ELSE error.message

\* the catch block of postShortner
postShortnerCatch(r, message) ==
    IF message = "Short code already exists"
    THEN Finish(r, "shorten", "redirect", "/",
                "This short code is already taken. Please choose another.")
    ELSE Finish(r, "shorten", "redirect", "/",
                "Internal Server Error: " \o message)

\* the catch block of updateShortLink
updateShortLinkCatch(r, message) ==
    IF message = "Short code already exists"
    THEN Finish(r, "edit", "redirect", "/edit/:id",
                "Short code already exists, please choose another")
    ELSE Finish(r, "edit", "redirect", "/",
                "Internal Server Error while updating short link")

\* the unique index of shortCode refuses the value for the row id
ShortCodeTaken(shortCode, id) ==
    \E l \in DOMAIN shortLinks :
        l # id /\ shortLinks[l].shortCode = shortCode

\* an ownership test that lets every logged-in user through
OwnsLink_anyone(id, user) == TRUE

\* updateShortLink: existingLink.userId !== req.user.id fails
OwnsLink(id, user) == shortLinks[id].userId = user.id

\* INSERT INTO short_links
saveLinks(id, shortCode, url, userId) ==
    shortLinks @@
       (id :> [shortCode |-> shortCode, url |-> url, userId |-> userId])

\* UPDATE short_links SET url, shortCode WHERE id = id
updateShortLinkById(id, url, shortCode) ==
    [l \in DOMAIN shortLinks |->
        IF l = id
        THEN [shortLinks[l] EXCEPT !.url = url, !.shortCode = shortCode]
        ELSE shortLinks[l]]

\* a request arrives, no more than MaxLinkRequests of them
ReceiveLinks(slot, acc, ref) ==
    LET r0 == [IdleReq EXCEPT !.acc = acc, !.ref = ref, !.start = now,
                              !.preRevoked = Revoked]
    IN  /\ ~InFlight(reqs[slot])
        /\ received < MaxLinkRequests
        /\ received' = received + 1
        /\ reqs' = [reqs EXCEPT ![slot] = MiddlewareBegin(r0)]
        /\ UNCHANGED <<others, nextUserId, users, sessions, nextSessionId,
                       now, advances, issued, sessionLog>>

\* postShortner up to the answer of getLinkByShortCode
PostShortner(slot, body, random, select) ==
    LET finalShortCode == IF body.shortCode # "" THEN body.shortCode
                          ELSE random
        r == [reqs[slot] EXCEPT
                !.form = [url |-> body.url, shortCode |-> finalShortCode]]
        issue == shortnerSchema(body)
    IN  /\ reqs[slot].pc = "handler"
        /\ reqs' = [reqs EXCEPT ![slot] =
              IF r.user.kind = "null"
              THEN Finish(r, "shorten", "redirect", "/login",
                          "You must be logged in to create short links")
              ELSE IF issue # NoStr
                   THEN Finish(r, "shorten", "redirect", "/", issue)
              ELSE IF getLinkByShortCode(finalShortCode, select) # NoId
                   THEN Finish(r, "shorten", "redirect", "/",
                               "URL with that shortcode already exists, Please choose another")
              ELSE [r EXCEPT !.pc = "saveLinks", !.route = "shorten"]]
        /\ UNCHANGED <<others, nextUserId, users, sessions, nextSessionId,
                       now, advances, received, issued, sessionLog>>

\* saveLinks answers: the INSERT throws before the server has run it; or
\* the unique index refuses the row; or the row is inserted.  The errors
\* go through the catch block of saveLinks and then that of postShortner.
\* The refused INSERT has taken its id from the counter.
SaveLinks(slot, insert) ==
    LET r == reqs[slot]
    IN  /\ r.pc = "saveLinks"
        /\ IF insert = "throws"
           THEN LET error == DriverError("ECONNRESET", "read ECONNRESET")
                IN  /\ nextLinkId' = nextLinkId
                    /\ shortLinks' = shortLinks
                    /\ reqs' = [reqs EXCEPT ![slot] =
                          [postShortnerCatch(r, ServiceError(error))
                             EXCEPT !.fault = "ECONNRESET"]]
           ELSE IF ShortCodeTaken(r.form.shortCode, NoId)
           THEN LET error == DriverError("ER_DUP_ENTRY", "Duplicate entry")
                IN  /\ nextLinkId' = nextLinkId + 1
                    /\ shortLinks' = shortLinks
                    /\ reqs' = [reqs EXCEPT ![slot] =
                          [postShortnerCatch(r, ServiceError(error))
                             EXCEPT !.fault = "ER_DUP_ENTRY"]]
           ELSE /\ nextLinkId' = nextLinkId + 1
                /\ shortLinks' = saveLinks(nextLinkId, r.form.shortCode,
                                           r.form.url, r.user.id)
                /\ reqs' = [reqs EXCEPT ![slot] =
                      [Finish(r, "shorten", "redirect", "/", NoStr)
                         EXCEPT !.found = nextLinkId]]
        /\ UNCHANGED <<isolation, driverErrors,
                       nextUserId, verifyEmailTokens, pendingClears,
                       oauthAccounts, usedTokens, users, sessions,
                       nextSessionId, now, advances, received, issued,
                       sessionLog>>

\* updateShortLink up to the answer of findShortLinkById
UpdateShortLink(slot, param, body, select) ==
    LET r == [reqs[slot] EXCEPT !.form = body]
        id == CoerceId(param)
        issue == shortnerSchema(body)
    IN  /\ reqs[slot].pc = "handler"
        /\ reqs' = [reqs EXCEPT ![slot] =
              IF r.user.kind = "null"
              THEN Finish(r, "edit", "redirect", "/login",
                          "You must be logged in to update short links")
              ELSE IF id = NoId
                   THEN Finish(r, "edit", "redirect", "/", "Invalid link ID")
              ELSE IF issue # NoStr
                   THEN Finish(r, "edit", "redirect", "/edit/:id", issue)
              ELSE IF findShortLinkById(id, select) = NoId
                   THEN Finish(r, "edit", "redirect", "/",
                               "Short link not found")
              ELSE IF ~OwnsLink(id, r.user)
                   THEN Finish(r, "edit", "redirect", "/",
                               "You can only edit your own links")
              ELSE IF body.shortCode # shortLinks[id].shortCode
                   THEN [r EXCEPT !.pc = "checkShortCode", !.route = "edit",
                                  !.found = id]
              ELSE [r EXCEPT !.pc = "updateLink", !.route = "edit",
                             !.found = id]]
        /\ UNCHANGED <<others, nextUserId, users, sessions, nextSessionId,
                       now, advances, received, issued, sessionLog>>

\* updateShortLink: getLinkByShortCode answers for the new short code; a
\* look-up that throws answers null, and the request goes on to its UPDATE
CheckShortCode(slot, select) ==
    LET r == reqs[slot]
        duplicateLink == getLinkByShortCode(r.form.shortCode, select)
    IN  /\ r.pc = "checkShortCode"
        /\ reqs' = [reqs EXCEPT ![slot] =
              IF duplicateLink # NoId /\ duplicateLink # r.found
              THEN Finish(r, "edit", "redirect", "/edit/:id",
                          "Short code already exists, please choose another")
              ELSE [r EXCEPT !.pc = "updateLink"]]
        /\ UNCHANGED <<others, nextUserId, users, sessions, nextSessionId,
                       now, advances, received, issued, sessionLog>>

\* updateShortLinkById answers: the UPDATE throws before the server has
\* run it; or the unique index refuses the short code; or the row is
\* updated.  The errors go through the catch block of updateShortLinkById
\* and then that of updateShortLink.
UpdateShortLinkById(slot, update) ==
    LET r == reqs[slot]
    IN  /\ r.pc = "updateLink"
        /\ IF update = "throws"
           THEN LET error == DriverError("ECONNRESET", "read ECONNRESET")
                IN  /\ shortLinks' = shortLinks
                    /\ reqs' = [reqs EXCEPT ![slot] =
                          [updateShortLinkCatch(r, ServiceError(error))
                             EXCEPT !.fault = "ECONNRESET",
                                    !.found = r.found]]
           ELSE IF ShortCodeTaken(r.form.shortCode, r.found)
           THEN LET error == DriverError("ER_DUP_ENTRY", "Duplicate entry")
                IN  /\ shortLinks' = shortLinks
                    /\ reqs' = [reqs EXCEPT ![slot] =
                          [updateShortLinkCatch(r, ServiceError(error))
                             EXCEPT !.fault = "ER_DUP_ENTRY",
                                    !.found = r.found]]
           ELSE /\ shortLinks' = updateShortLinkById(r.found, r.form.url,
                                                     r.form.shortCode)
                /\ reqs' = [reqs EXCEPT ![slot] =
                      [Finish(r, "edit", "redirect", "/", NoStr)
                         EXCEPT !.found = r.found]]
        /\ UNCHANGED <<isolation, driverErrors,
                       nextUserId, verifyEmailTokens, pendingClears,
                       oauthAccounts, usedTokens, nextLinkId, users, sessions,
                       nextSessionId, now, advances, received, issued,
                       sessionLog>>

\* the server after Ada and Bob logged in at time 0 and Ada made the
\* short link abc; it serves two requests at a time
InitLinks ==
    /\ users = SeedUsers
    /\ nextUserId = Cardinality(DOMAIN SeedUsers) + 1
    /\ sessions = [s \in {1, 2} |-> [userId |-> s, valid |-> TRUE]]
    /\ nextSessionId = 3
    /\ now = 0
    /\ advances = 0
    /\ received = 0
    /\ issued =
          {createAccessToken(u, SeedUsers[u].name, SeedUsers[u].email, u, 0) :
              u \in {1, 2}}
          \cup {createRefreshToken(u, 0) : u \in {1, 2}}
    /\ sessionLog = [s \in {1, 2} |-> [userId |-> s, revokedAt |-> NoTime]]
    /\ reqs = [slot \in Clients |-> IdleReq]
    /\ verifyEmailTokens = <<>>
    /\ pendingClears = EmptyBag
    /\ oauthAccounts = <<>>
    /\ usedTokens = {}
    /\ shortLinks = (1 :> [shortCode |-> "abc", url |-> "https://a.example",
                           userId |-> 1])
    /\ nextLinkId = 2
    /\ isolation = "REPEATABLE-READ"
    /\ driverErrors \in DriverErrors

NextLinks ==
    \/ \E slot \in Clients, jar \in CookieJars :
          ReceiveLinks(slot, jar[1], jar[2])
    \/ \E slot \in Clients, body \in LinkBodies, random \in RandomCodes,
          select \in StatementOutcomes :
          PostShortner(slot, body, random, select)
    \/ \E slot \in Clients, insert \in StatementOutcomes :
          SaveLinks(slot, insert)
    \/ \E slot \in Clients, param \in LinkParams, body \in LinkBodies,
          select \in StatementOutcomes :
          UpdateShortLink(slot, param, body, select)
    \/ \E slot \in Clients, select \in StatementOutcomes :
          CheckShortCode(slot, select)
    \/ \E slot \in Clients, update \in StatementOutcomes :
          UpdateShortLinkById(slot, update)

\* the clock stands still: the cookies of the two logins stay valid, so
\* no request enters the refresh sub-flow
SpecLinks == InitLinks /\ [][NextLinks]_vars

(* ------------------------------------------------------------------ *)
(* C29                                                                  *)
(* ------------------------------------------------------------------ *)
\* the step changes the url or the short code of the link
LinkModified(id) ==
    /\ id \in DOMAIN shortLinks
    /\ id \in DOMAIN shortLinks'
    /\ \/ shortLinks'[id].url # shortLinks[id].url
       \/ shortLinks'[id].shortCode # shortLinks[id].shortCode

\* the request in the slot is an updateShortLink for the link, about to
\* write, and its identity is the user the link belongs to
OwnerUpdates(slot, id) ==
    /\ reqs[slot].pc = "updateLink"
    /\ reqs[slot].found = id
    /\ reqs[slot].user.kind # "null"
    /\ reqs[slot].user.id = shortLinks[id].userId

\* C29: the url and the short code of a link change only in an
\* updateShortLink of a request whose identity is not anonymous and has
\* the user id of the link's userId; for every other requester the row is
\* left as it is.
C29_OnlyOwnerModifiesLink ==
    [][\A id \in DOMAIN shortLinks :
          LinkModified(id) =>
             \E slot \in DOMAIN reqs : OwnerUpdates(slot, id)]_vars

\* Ada has changed her link, and Bob's request to change the same link
\* has been refused
C29_Witness ==
    /\ shortLinks[1].userId = 1
    /\ shortLinks[1].url = "https://b.example"
    /\ \E slot \in DOMAIN reqs :
          /\ reqs[slot].pc = "done"
          /\ reqs[slot].route = "edit"
          /\ reqs[slot].user.id = 1
          /\ reqs[slot].found = 1
          /\ reqs[slot].flash = NoStr
    /\ \E slot \in DOMAIN reqs :
          /\ reqs[slot].pc = "done"
          /\ reqs[slot].route = "edit"
          /\ reqs[slot].user.id = 2
          /\ reqs[slot].flash = "You can only edit your own links"

(* ------------------------------------------------------------------ *)
(* C30                                                                  *)
(* ------------------------------------------------------------------ *)
\* no two short links have the same short code
UniqueShortCodes ==
    \A l, m \in DOMAIN shortLinks :
        shortLinks[l].shortCode = shortLinks[m].shortCode => l = m

\* the request in the slot ends its write in this step: the INSERT of a
\* postShortner or the UPDATE of an updateShortLink
LinkWriteStep(slot) ==
    /\ reqs[slot].pc \in {"saveLinks", "updateLink"}
    /\ reqs'[slot].pc = "done"

\* another link than the one the request in the slot writes has the
\* short code of the request
HeldByAnotherLink(slot) ==
    \E l \in DOMAIN shortLinks :
        /\ shortLinks[l].shortCode = reqs[slot].form.shortCode
        /\ ~(reqs[slot].pc = "updateLink" /\ l = reqs[slot].found)

\* the request in the slot loses in this step: the server runs its write
\* and another link holds its short code
LosesShortCode(slot) ==
    /\ LinkWriteStep(slot)
    /\ HeldByAnotherLink(slot)
    /\ reqs'[slot].fault # "ECONNRESET"

\* the answers that tell the requester that the short code is taken
CodeExistsOutcome(r) ==
    /\ r.status = "redirect"
    /\ r.flash \in
          {"URL with that shortcode already exists, Please choose another",
           "This short code is already taken. Please choose another.",
           "Short code already exists, please choose another"}

\* a write leaves the table alone when another link holds its short code,
\* and a postShortner leaves every row that exists as it is
NoOverwrite ==
    [][\A slot \in DOMAIN reqs :
          LinkWriteStep(slot) =>
             /\ reqs[slot].pc = "saveLinks" =>
                   \A l \in DOMAIN shortLinks :
                       /\ l \in DOMAIN shortLinks'
                       /\ shortLinks'[l] = shortLinks[l]
             /\ HeldByAnotherLink(slot) => shortLinks' = shortLinks]_vars

\* with a driver error that reaches the service as mysql2 threw it, the
\* losing request is answered that the short code already exists
LoserToldWithRawErrors ==
    [][\A slot \in DOMAIN reqs :
          (driverErrors = "raw" /\ LosesShortCode(slot)) =>
             CodeExistsOutcome(reqs'[slot])]_vars

\* a request whose write the unique index refused has been answered with
\* an internal server error
LoserToldInternalError ==
    \E won, lost \in DOMAIN reqs :
        /\ won # lost
        /\ reqs[won].pc = "done"
        /\ reqs[won].found \in DOMAIN shortLinks
        /\ reqs[lost].pc = "done"
        /\ reqs[lost].fault = "ER_DUP_ENTRY"
        /\ reqs[lost].form.shortCode = shortLinks[reqs[won].found].shortCode
        /\ ~CodeExistsOutcome(reqs[lost])

\* C30: however postShortner and updateShortLink requests interleave, no
\* two short links share a short code; a postShortner leaves every row
\* that exists as it is; and a request whose write the server runs while
\* another link holds its short code (taken since its pre-check, or
\* missed by a pre-check that failed) changes nothing and is answered
\* that the short code already exists.
C30_ShortCodesStayUnique ==
    /\ [](UniqueShortCodes)
    /\ [][\A slot \in DOMAIN reqs :
             LinkWriteStep(slot) =>
                /\ reqs[slot].pc = "saveLinks" =>
                      \A l \in DOMAIN shortLinks :
                          /\ l \in DOMAIN shortLinks'
                          /\ shortLinks'[l] = shortLinks[l]
                /\ HeldByAnotherLink(slot) => shortLinks' = shortLinks
                /\ LosesShortCode(slot) =>
                      CodeExistsOutcome(reqs'[slot])]_vars

====
